---- MODULE Spec2Model ----
(***************************************************************************)
(* Social-Hunt scan engine (src/social_hunt/engine.py).                    *)
(*                                                                         *)
(* One engine instance, one scan_username call.  Probe tasks run as        *)
(* cooperative asyncio tasks: an action is the code a task runs between    *)
(* two suspension points.  Time is the monotonic clock in seconds; it      *)
(* advances in steps of TickSec.                                           *)
(***************************************************************************)
EXTENDS Integers, Sequences, FiniteSets, TLC

(* ------------------------------ bounds -------------------------------- *)

\* last instant of the clock that the model explores (seconds)
MaxTime == 15

\* granularity of the clock (seconds per Tick)
TickSec == 5

\* largest max_concurrency the engine is constructed with
MaxConc == 2

\* most addons that run in one scan
MaxAddons == 1

\* min_host_interval_sec the engine is constructed with (seconds)
min_host_interval_sec == 5

\* most records a breach service returns for one query
MaxRecords == 101

(* ------------------------- values and strings ------------------------- *)

None == "None"

\* the local `res` of run_one before it is bound: no ProviderResult yet
Unbound == <<>>

\* Strings that the code compares or lower-cases are sequences of ASCII
\* code points: "a" = <<97>>, "B" = <<66>>, "c" = <<99>>, "g" = <<103>>,
\* "Zz" = <<90, 122>>.
NameA == <<97>>
NameB == <<66>>
NameC == <<99>>
NameGhost == <<103>>
NameZz == <<90, 122>>

\* str.lower() on ASCII
Lower(s) == [i \in DOMAIN s |-> IF s[i] \in 65..90 THEN s[i] + 32 ELSE s[i]]

\* Python's < on str: lexicographic by code point, a proper prefix is smaller
RECURSIVE StrLess(_, _)
StrLess(a, b) ==
    IF b = <<>> THEN FALSE
    ELSE IF a = <<>> THEN TRUE
    ELSE IF Head(a) < Head(b) THEN TRUE
    ELSE IF Head(a) > Head(b) THEN FALSE
    ELSE StrLess(Tail(a), Tail(b))

\* URLs are sequences of chunks: <<scheme, host chunks..., "/", path chunks...>>.
\* `sub in url` is true when the chunk occurs in the sequence.
Contains(url, sub) == \E i \in DOMAIN url : url[i] = sub

(* ----------------------------- registry ------------------------------- *)

(* ------------------------- identifier strings ------------------------- *)

\* An identifier is a sequence of chunks.  A chunk is one character or a
\* run of characters of one class:
\*   "x"  a letter                  "onion"  five letters
\*   "1"  an ASCII digit            "1234567", "12345678901234567"  digit runs
\*   "sup2"  the one character U+00B2, a digit that str.isdigit accepts
\*           and int() and \d reject
\*   "."  "@"  "*"  " "             themselves
\*   ".onion"  a "." followed by "onion"
ChunkLen(c) ==
    CASE c = "onion" -> 5
      [] c = ".onion" -> 6
      [] c = "1234567" -> 7
      [] c = "12345678901234567" -> 17
      [] OTHER -> 1

AsciiLetters == {"x", "onion"}

AsciiDigits == {"1", "1234567", "12345678901234567"}

OtherDigits == {"sup2"}

\* the characters of a string, with ".onion" split at its dot
RECURSIVE Expand(_)
Expand(s) ==
    IF s = <<>> THEN <<>>
    ELSE IF Head(s) = ".onion" THEN <<".", "onion">> \o Expand(Tail(s))
    ELSE <<Head(s)>> \o Expand(Tail(s))

\* len(s)
RECURSIVE StrLen(_)
StrLen(s) == IF s = <<>> THEN 0 ELSE ChunkLen(Head(s)) + StrLen(Tail(s))

\* `c in s` and s.count(c) for a one-character c
Has(s, c) == \E i \in DOMAIN Expand(s) : Expand(s)[i] = c

Count(s, c) == Cardinality({i \in DOMAIN Expand(s) : Expand(s)[i] = c})

\* s.strip()
RECURSIVE lstrip(_)
lstrip(s) == IF s # <<>> /\ Head(s) = " " THEN lstrip(Tail(s)) ELSE s

RECURSIVE rstrip(_)
rstrip(s) ==
    IF s # <<>> /\ s[Len(s)] = " " THEN rstrip(SubSeq(s, 1, Len(s) - 1)) ELSE s

strip(s) == rstrip(lstrip(s))

\* s.replace(c, "") for the separators the providers remove
Without(s, cs) == SelectSeq(s, LAMBDA c : c \notin cs)

\* str.isdigit
isdigit(s) ==
    /\ s # <<>>
    /\ \A i \in DOMAIN s : s[i] \in AsciiDigits \cup OtherDigits

\* "".join(filter(str.isdigit, s))
Digits(s) == SelectSeq(s, LAMBDA c : c \in AsciiDigits \cup OtherDigits)

\* int(s) of a string that str.isdigit accepts: a ValueError unless every
\* digit is a decimal one; the decimal digits in use are all 1, so the
\* value is at most 255 exactly when there are at most three of them
IntRaises(s) == \E i \in DOMAIN s : s[i] \in OtherDigits

IntInByte(s) == StrLen(s) <= 3

\* s.split("."), s holding at least the first, empty, part
RECURSIVE SplitDots(_, _)
SplitDots(s, part) ==
    IF s = <<>> THEN <<part>>
    ELSE IF Head(s) = "." THEN <<part>> \o SplitDots(Tail(s), <<>>)
    ELSE SplitDots(Tail(s), Append(part, Head(s)))

split(s) == SplitDots(Expand(s), <<>>)

\* `all(p.isdigit() and 0 <= int(p) <= 255 for p in parts)`, evaluated part
\* by part: "yes", "no", or the "ValueError" of int
RECURSIVE AllBytes(_)
AllBytes(parts) ==
    IF parts = <<>> THEN "yes"
    ELSE IF ~isdigit(Head(parts)) THEN "no"
    ELSE IF IntRaises(Head(parts)) THEN "ValueError"
    ELSE IF ~IntInByte(Head(parts)) THEN "no"
    ELSE AllBytes(Tail(parts))

\* the test `"." in term and term.count(".") == 3` with the quad test
IpTest(term) ==
    IF Has(term, ".") /\ Count(term, ".") = 3 THEN AllBytes(split(term)) ELSE "no"

\* `clean.isdigit() and 7 <= len(clean) <= 15` after the separators are removed
IsPhone(term) ==
    LET clean == Without(term, {"+", "-", " ", "(", ")"})
    IN  isdigit(clean) /\ 7 <= StrLen(clean) /\ StrLen(clean) <= 15

\* re.match(r"^[a-zA-Z0-9]{2,10}$", s)
IsInvite(s) ==
    /\ \A i \in DOMAIN s : s[i] \in AsciiLetters \cup AsciiDigits
    /\ 2 <= StrLen(s) /\ StrLen(s) <= 10

\* re.match(r"^\d{17,20}$", s)
IsNumericId(s) ==
    /\ \A i \in DOMAIN s : s[i] \in AsciiDigits
    /\ 17 <= StrLen(s) /\ StrLen(s) <= 20

\* re.match(r"^[a-zA-Z0-9._%+-]+@[a-zA-Z0-9.-]+\.[a-zA-Z]{2,}$", s)
IsEmail(s) ==
    LET e == Expand(s)
        word == AsciiLetters \cup AsciiDigits
    IN  \E a, d \in DOMAIN e :
          /\ e[a] = "@" /\ e[d] = "." /\ 1 < a /\ a + 1 < d /\ d < Len(e)
          /\ \A i \in 1..(a - 1) : e[i] \in word \cup {"."}
          /\ \A i \in (a + 1)..(d - 1) : e[i] \in word \cup {"."}
          /\ \A i \in (d + 1)..Len(e) : e[i] \in AsciiLetters
          /\ StrLen(SubSeq(e, d + 1, Len(e))) >= 2

\* urllib.parse.quote_plus
quote_plus(s) ==
    [i \in DOMAIN s |->
        CASE s[i] = " " -> "+"
          [] s[i] = "@" -> "%40"
          [] s[i] = "*" -> "%2A"
          [] s[i] = "sup2" -> "%C2%B2"
          [] OTHER -> s[i]]

\* identifiers a caller passes
Identifiers ==
    { <<>>,
      <<" ">>,
      <<"x">>,
      <<"x", "*">>,
      <<"x", "@", "x", ".onion">>,
      <<"1", ".", "1", ".", "1", ".", "1">>,
      <<"1", ".", "1", ".", "1", ".", "sup2">>,
      <<"1234567">>,
      <<"12345678901234567">>,
      <<"sup2">> }

\* the providers of src/social_hunt/providers, by `name`
NameLeakcheck == <<108, 101, 97, 107, 99, 104, 101, 99, 107>>

NameSnusbase == <<115, 110, 117, 115, 98, 97, 115, 101>>

NameBreachvip == <<98, 114, 101, 97, 99, 104, 118, 105, 112>>

NameHibp == <<104, 105, 98, 112>>

NameStackoverflow == <<115, 116, 97, 99, 107, 111, 118, 101, 114, 102, 108, 111, 119>>

NameGoodreads == <<103, 111, 111, 100, 114, 101, 97, 100, 115>>

NameDiscord == <<100, 105, 115, 99, 111, 114, 100>>

NameGoyimtv == <<103, 111, 121, 105, 109, 116, 118>>

Providers ==
    { NameLeakcheck, NameSnusbase, NameBreachvip, NameHibp, NameStackoverflow,
      NameGoodreads, NameDiscord, NameGoyimtv }

\* The probes the engine is constructed with.  Attributes are those of
\* BaseProvider: name, timeout, use_proxy, and the two methods.
\*   a : clearnet, host h1, no proxy opt-in
\*   B : clearnet, host H1:443 (the same host as a), opts in to the proxy
\*   c : hidden service, also opts in to the proxy
Probes == {NameA, NameB, NameC}

\* dict iteration order of the registry
RegistryOrder == <<NameA, NameB, NameC>>

timeout(p) ==
    CASE p = NameC -> 10
      [] p \in {NameLeakcheck, NameSnusbase, NameBreachvip, NameHibp} -> 15
      [] p \in {NameStackoverflow, NameGoodreads, NameDiscord} -> 10
      [] p = NameGoyimtv -> 25
      [] OTHER -> 5

use_proxy(p) == p \in {NameB, NameC}

build_url(p, username) ==
    CASE p = NameA -> <<"https://", "h1", "/", username>>
      [] p = NameB -> <<"https://", "H1", ":443", "/", "search">>
      [] p = NameC -> <<"http://", "abc", ".onion", "/", username>>
      [] p = NameLeakcheck ->
            <<"https://", "leakcheck.io", "/", "api/v2/query", "/">> \o username
      [] p = NameSnusbase -> <<"https://", "api.snusbase.com", "/", "data/search">>
      [] p = NameBreachvip -> <<"https://", "breach.vip", "/", "api/search">>
      [] p = NameHibp ->
            <<"https://", "haveibeenpwned.com", "/", "api/v3/breachedaccount/">>
               \o username
      [] p = NameStackoverflow ->
            IF Digits(username) # <<>>
            THEN <<"https://", "stackoverflow.com", "/", "users/">> \o Digits(username)
            ELSE <<"https://", "stackoverflow.com", "/">>
      [] p = NameGoodreads ->
            <<"https://", "www.goodreads.com", "/", "search?q=">> \o username
      [] p = NameDiscord ->
            IF IsInvite(strip(username))
            THEN <<"https://", "discord.gg", "/">> \o username
            ELSE <<"https://", "discord.com", "/", "users/">> \o username
      [] p = NameGoyimtv ->
            <<"https://", "goyimtv.st", "/", "search?tf=6&q=">> \o quote_plus(username)

Usernames == {"u"}

\* what the abstract probe's check reports when it returns
probe_status(p) == IF p = NameA THEN "FOUND" ELSE "NOT_FOUND"

\* JSON-like values of evidence and profile: a tag and a payload
Str(v) == [tag |-> "str", val |-> v]

List(v) == [tag |-> "list", val |-> v]

Dict(v) == [tag |-> "dict", val |-> v]

\* the evidence and profile mappings the modelled probes report
probe_evidence(p) ==
    IF p = NameA THEN [note |-> Str("Found via user search")] ELSE <<>>

probe_profile(p) ==
    IF p = NameB
    THEN [raw_results |-> List(<<"rec">>), sources |-> Dict([web |-> Str("x")])]
    ELSE <<>>

\* values of SOCIAL_HUNT_PROXY: unset, empty, set
TorEnv == {None, "", "socks5h://127.0.0.1:9050"}

\* values of SOCIAL_HUNT_CLEARNET_PROXY: unset, set
ClearnetEnv == {None, "http://proxy.example.com:8080"}

\* Python truthiness of an Optional[str]
Truthy(v) == v \notin {None, ""}

\* provider filters a caller passes; <<>> stands for both None and []
Filters ==
    { <<>>,
      <<NameA, NameA>>,
      <<NameGhost, NameB, NameA>>,
      <<NameGhost>> }

\* behaviours of an addon's run
AddonBehaviours == {"noop", "append", "raise"}

\* SOCIAL_HUNT_PROXY in the scans with a callback
LifeTor == "socks5h://127.0.0.1:9050"

(* ------------------------------- state -------------------------------- *)

VARIABLES
    now,                   \* monotonic clock, seconds
    next_allowed,          \* HostRateLimiter: host -> next allowed time
    max_concurrency,       \* engine attribute
    demo_mode,             \* what demo.is_demo_mode() answers in this process
    scan_pc,               \* "idle" | "probes" | "addons" | "returned" | "raised" | "cancelled"
    username,              \* argument of scan_username
    providers,             \* argument of scan_username
    chosen,                \* list of registry keys, one probe task each
    tor_proxy_url,         \* os.getenv("SOCIAL_HUNT_PROXY")
    clearnet_proxy_url,    \* os.getenv("SOCIAL_HUNT_CLEARNET_PROXY")
    open_clients,          \* clients entered on the AsyncExitStack and not yet closed
    sem,                   \* free slots of asyncio.Semaphore(max_concurrency)
    sem_waiters,           \* FIFO of tasks blocked in `async with sem`
    pc,                    \* per task: "wait" | "sem" | "check" | "done" | "failed" | "cancelled"
    use_client,            \* per task: the client handed to check
    wait_ret,              \* per task: time limiter.wait returned (-1: not yet)
    check_start,           \* per task: time check was invoked (-1: not yet)
    outcome,               \* per task: how check ended: "returned" | "timeout" | "raised"
    res,                   \* per task: the ProviderResult of run_one
    raw_res,               \* per task: that result as it was before the demo block
    results,               \* the list gather returned, as addons see and extend it
    enabled_addon_names,   \* self.enabled_addon_names
    dynamic_addons,        \* the dynamic_addons argument of the scan
    progress_callback,     \* the progress_callback argument of the scan
    cb_calls,              \* per probe task: the arguments of its callback calls
    addons_to_run,         \* the addons of the scan, in task order
    addon_pc,              \* per addon: "pending" | "done" | "raised" | "cancelled"
    addon_args,            \* per addon: the arguments its run received
    returned,              \* the list scan_username returned (None: nothing yet)
    probe_pc,              \* one provider's check: "idle" | "await" | "sleep" | "returned" | "raised"
    probe,                 \* the provider whose check is followed (<<>>: none)
    api_key,               \* whether the provider's API key is configured
    handed,                \* the client run_one hands to that check
    headers,               \* the header mapping run_one hands to that check
    requests,              \* the HTTP requests of that check, with their responses
    probe_res,             \* the ProviderResult that check returned
    other                  \* a second scan_username call on the same engine

vars == <<now, next_allowed, max_concurrency, demo_mode, scan_pc, username, providers,
          chosen, tor_proxy_url, clearnet_proxy_url, open_clients, sem,
          sem_waiters, pc, use_client, wait_ret, check_start, outcome, res, raw_res,
          results, enabled_addon_names, dynamic_addons, progress_callback,
          cb_calls, addons_to_run, addon_pc, addon_args, returned, probe_pc,
          probe, api_key, handed, headers, requests, probe_res, other>>

probe_vars == <<probe_pc, probe, api_key, handed, headers, requests, probe_res>>

Tasks == DOMAIN chosen

prov(i) == chosen[i]

url(i) == build_url(prov(i), username)

\* the host gate keyed by the registry name instead of the URL
wait_arg_name(i) ==
    <<"", CASE prov(i) = NameA -> "a" [] prov(i) = NameB -> "B" [] OTHER -> "c">>

\* the argument of `self.limiter.wait(...)` in run_one
wait_arg(i) == url(i)

(* ------------------------- host rate limiter -------------------------- *)

\* case folding and port chunks of the URLs in use
LowerChunk(c) == IF c = "H1" THEN "h1" ELSE c

IsPort(c) == c \in {":443", ":80"}

\* host component of a URL: the chunks between the scheme and the first "/",
\* lower-cased, without the port
RECURSIVE HostChunks(_)
HostChunks(u) ==
    IF u = <<>> \/ Head(u) = "/" THEN <<>>
    ELSE IF IsPort(Head(u)) THEN HostChunks(Tail(u))
    ELSE <<LowerChunk(Head(u))>> \o HostChunks(Tail(u))

HostOf(u) == IF u = <<>> THEN <<>> ELSE HostChunks(Tail(u))

\* a limiter built with half the configured interval
min_interval_sec_half == min_host_interval_sec \div 2

\* HostRateLimiter(min_interval_sec=min_host_interval_sec)
min_interval_sec == min_host_interval_sec

\* next_allowed_at of a host; a host never seen is allowed at once
NextAllowedAt(h) == IF h \in DOMAIN next_allowed THEN next_allowed[h] ELSE -1

Max(a, b) == IF a >= b THEN a ELSE b

\* the map after wait(u) returns at time t
LimiterAdvance(u, t) ==
    LET h == HostOf(u) IN
    [x \in DOMAIN next_allowed \cup {h} |->
        IF x = h THEN Max(t, NextAllowedAt(h)) + min_interval_sec
        ELSE next_allowed[x]]

\* wait(u) may return at time t
LimiterOpen(u, t) == t >= NextAllowedAt(HostOf(u))

(* ------------------------------ run_one ------------------------------- *)

\* client selection with the proxy opt-in tested before ".onion"
select_client_proxy_first(u, p, tor, clearnet) ==
    IF use_proxy(p) /\ clearnet # None THEN "client_clearnet_proxy"
    ELSE IF Contains(u, ".onion") /\ tor # None THEN "client_tor"
    ELSE "client_direct"

\* client selection of run_one: first match wins
select_client(u, p, tor, clearnet) ==
    IF Contains(u, ".onion") /\ tor # None THEN "client_tor"
    ELSE IF use_proxy(p) /\ clearnet # None THEN "client_clearnet_proxy"
    ELSE "client_direct"

TimeoutSlack == 5

\* an outer timeout one clock step longer than the code's
provider_timeout_late(p) == timeout(p) + TimeoutSlack + TickSec

\* `provider_timeout = provider.timeout + 5`
provider_timeout(p) == timeout(p) + TimeoutSlack

\* f"Timed out after {provider_timeout}s"
TimedOutMessage(n) == <<"Timed out after ", n, "s">>

\* the synthesised result with elapsed_ms left in seconds
TimeoutResult_seconds(p, ident, t) ==
    [ provider      |-> p,
      username      |-> ident,
      url           |-> build_url(p, ident),
      status        |-> "ERROR",
      http_status   |-> None,
      elapsed_ms    |-> provider_timeout(p),
      evidence      |-> <<>>,
      profile       |-> <<>>,
      error         |-> TimedOutMessage(provider_timeout(p)),
      timestamp_iso |-> t ]

\* the ProviderResult synthesised on asyncio.TimeoutError
TimeoutResult(p, ident, t) ==
    [ provider      |-> p,
      username      |-> ident,
      url           |-> build_url(p, ident),
      status        |-> "ERROR",
      http_status   |-> None,
      elapsed_ms    |-> provider_timeout(p) * 1000,
      evidence      |-> <<>>,
      profile       |-> <<>>,
      error         |-> TimedOutMessage(provider_timeout(p)),
      timestamp_iso |-> t ]

\* the ProviderResult a conforming probe's check returns after `elapsed` seconds
CheckResult(p, ident, t, elapsed) ==
    [ provider      |-> p,
      username      |-> ident,
      url           |-> build_url(p, ident),
      status        |-> probe_status(p),
      http_status   |-> 200,
      elapsed_ms    |-> elapsed * 1000,
      evidence      |-> probe_evidence(p),
      profile       |-> probe_profile(p),
      error         |-> None,
      timestamp_iso |-> t ]

\* demo.censor_value(value, key_hint) and demo.censor_breach_data(list)
censor_value(v, k) == Str("[censored]")

censor_breach_data(v) == List([n \in DOMAIN v.val |-> "[censored]"])

\* the demo-mode block of run_one
censored_prof(prof) ==
    [k \in DOMAIN prof |->
        IF k = "raw_results" /\ prof[k].tag = "list"
        THEN censor_breach_data(prof[k])
        ELSE IF prof[k].tag = "dict"
        THEN Dict([ik \in DOMAIN prof[k].val |-> censor_value(prof[k].val[ik], ik)])
        ELSE censor_value(prof[k], k)]

censored_ev(ev) ==
    [k \in DOMAIN ev |->
        IF ev[k].tag = "dict"
        THEN Dict([ik \in DOMAIN ev[k].val |-> censor_value(ev[k].val[ik], ik)])
        ELSE censor_value(ev[k], k)]

\* a demo block that empties the two mappings instead of censoring them
Redact_emptied(r) ==
    IF demo_mode THEN [r EXCEPT !.profile = <<>>, !.evidence = <<>>] ELSE r

\* the demo block of run_one
Redact(r) ==
    IF demo_mode
    THEN [r EXCEPT
            !.profile = IF r.profile # <<>> THEN censored_prof(r.profile)
                        ELSE r.profile,
            !.evidence = IF r.evidence # <<>> THEN censored_ev(r.evidence)
                         ELSE r.evidence]
    ELSE r

\* the optional clients of the scan: a handle, or None when the variable is
\* unset or empty
client_tor == IF Truthy(tor_proxy_url) THEN "client_tor" ELSE None

client_clearnet_proxy ==
    IF Truthy(clearnet_proxy_url) THEN "client_clearnet_proxy" ELSE None

\* the tasks of the first call that are inside check
InFlightTasks == {i \in Tasks : pc[i] = "check"}

\* the instant at which wait_for gives up on task i's check
Deadline(i) == check_start[i] + provider_timeout(prov(i))

\* a semaphore that admits every task
locked_never == FALSE

\* `async with sem` has to queue: no free slot
locked == sem <= 0

\* a release that frees a slot and wakes a waiter as well
ReleaseSem_twice(i, to) ==
    IF sem_waiters = <<>>
    THEN /\ sem' = sem + 1
         /\ sem_waiters' = sem_waiters
         /\ pc' = [pc EXCEPT ![i] = to]
         /\ check_start' = check_start
    ELSE LET w == Head(sem_waiters) IN
         /\ sem' = sem + 1
         /\ sem_waiters' = Tail(sem_waiters)
         /\ pc' = [pc EXCEPT ![i] = to, ![w] = "check"]
         /\ check_start' = [check_start EXCEPT ![w] = now]

\* leaving `async with sem`: the slot goes to the longest waiter, if any,
\* whose check starts at once; task i ends in state `to`
ReleaseSem(i, to) ==
    IF sem_waiters = <<>>
    THEN /\ sem' = sem + 1
         /\ sem_waiters' = sem_waiters
         /\ pc' = [pc EXCEPT ![i] = to]
         /\ check_start' = check_start
    ELSE LET w == Head(sem_waiters) IN
         /\ sem' = sem
         /\ sem_waiters' = Tail(sem_waiters)
         /\ pc' = [pc EXCEPT ![i] = to, ![w] = "check"]
         /\ check_start' = [check_start EXCEPT ![w] = now]

\* a semaphore one of whose slots a task takes before it passes the gate
new_semaphore_one_taken == max_concurrency - 1

\* `sem = asyncio.Semaphore(self.max_concurrency)`: the free slots of the
\* semaphore a scan creates
new_semaphore == max_concurrency

(* ------------------------------ actions ------------------------------- *)

\* no second call has been made
OtherIdle ==
    [ scan_pc     |-> "idle",
      username    |-> None,
      chosen      |-> <<>>,
      sem         |-> 0,
      sem_waiters |-> <<>>,
      pc          |-> <<>>,
      wait_ret    |-> <<>>,
      check_start |-> <<>> ]

\* a limiter made anew for every scan
limiter_at_scan_start_fresh == <<>>

\* self.limiter is made in __init__ and scan_username does not replace it:
\* a scan finds the host gate as earlier waits left it
limiter_at_scan_start == next_allowed

\* the state before any scan, but for the engine's configuration
NoScan ==
    /\ now = 0
    /\ next_allowed = <<>>
    /\ scan_pc = "idle"
    /\ username = None
    /\ providers = None
    /\ chosen = <<>>
    /\ tor_proxy_url = None
    /\ clearnet_proxy_url = None
    /\ open_clients = {}
    /\ sem = 0
    /\ sem_waiters = <<>>
    /\ pc = <<>>
    /\ use_client = <<>>
    /\ wait_ret = <<>>
    /\ check_start = <<>>
    /\ outcome = <<>>
    /\ res = <<>>
    /\ raw_res = <<>>
    /\ results = <<>>
    /\ dynamic_addons = <<>>
    /\ progress_callback = None
    /\ cb_calls = <<>>
    /\ addons_to_run = <<>>
    /\ addon_pc = <<>>
    /\ addon_args = <<>>
    /\ returned = None
    /\ probe_pc = "idle"
    /\ probe = <<>>
    /\ api_key = FALSE
    /\ handed = None
    /\ headers = <<>>
    /\ requests = <<>>
    /\ probe_res = None
    /\ other = OtherIdle

\* an engine constructed with a positive max_concurrency, before a scan
EngineInit ==
    /\ max_concurrency \in 1..MaxConc
    /\ NoScan

\* an engine with no addon enabled
Init ==
    /\ EngineInit
    /\ demo_mode \in BOOLEAN
    /\ enabled_addon_names = <<>>

\* `[p for p in providers if p in self.registry]`
RECURSIVE FilterRegistered(_)
FilterRegistered(ps) ==
    IF ps = <<>> THEN <<>>
    ELSE IF Head(ps) \in Probes
         THEN <<Head(ps)>> \o FilterRegistered(Tail(ps))
         ELSE FilterRegistered(Tail(ps))

\* a filter that counts only when it names a registered probe
has_filter_registered(ps) == FilterRegistered(ps) # <<>>

\* `if providers:`: None and the empty list are no filter
has_filter(ps) == ps # <<>>

\* the probe set with the filter ignored
Choose_registry(ps) == RegistryOrder

\* the `chosen` list of scan_username
Choose(ps) == IF has_filter(ps) THEN FilterRegistered(ps) ELSE RegistryOrder

\* scan_username up to `await asyncio.gather(*tasks)`: the probe set, the
\* semaphore, the clients and one task per chosen name, each of which runs
\* to its limiter.wait
ScanStart(ident, ps, tor, clearnet, dyn, cb) ==
    /\ scan_pc = "idle"
    /\ username' = ident
    /\ providers' = ps
    /\ chosen' = Choose(ps)
    /\ next_allowed' = limiter_at_scan_start
    /\ sem' = new_semaphore
    /\ sem_waiters' = <<>>
    /\ tor_proxy_url' = tor
    /\ clearnet_proxy_url' = clearnet
    /\ open_clients' = {"client_direct"}
                         \cup (IF Truthy(tor) THEN {"client_tor"} ELSE {})
                         \cup (IF Truthy(clearnet) THEN {"client_clearnet_proxy"} ELSE {})
    /\ pc' = [i \in DOMAIN Choose(ps) |-> "wait"]
    /\ use_client' = [i \in DOMAIN Choose(ps) |-> None]
    /\ wait_ret' = [i \in DOMAIN Choose(ps) |-> -1]
    /\ check_start' = [i \in DOMAIN Choose(ps) |-> -1]
    /\ outcome' = [i \in DOMAIN Choose(ps) |-> None]
    /\ res' = [i \in DOMAIN Choose(ps) |-> Unbound]
    /\ raw_res' = [i \in DOMAIN Choose(ps) |-> Unbound]
    /\ dynamic_addons' = dyn
    /\ progress_callback' = cb
    /\ cb_calls' = [i \in DOMAIN Choose(ps) |-> <<>>]
    /\ scan_pc' = "probes"
    /\ UNCHANGED <<now, max_concurrency, demo_mode, results,
                   enabled_addon_names, addons_to_run, addon_pc, addon_args,
                   returned>>
    /\ UNCHANGED probe_vars
    /\ UNCHANGED other

\* run_one from the return of limiter.wait to the next suspension point:
\* the client is selected, then the task takes a worker slot and starts
\* check, or queues for a slot
WaitReturn(i) ==
    /\ pc[i] = "wait"
    /\ LimiterOpen(wait_arg(i), now)
    /\ next_allowed' = LimiterAdvance(wait_arg(i), now)
    /\ wait_ret' = [wait_ret EXCEPT ![i] = now]
    /\ use_client' = [use_client EXCEPT ![i] =
           select_client(url(i), prov(i), client_tor, client_clearnet_proxy)]
    /\ IF ~locked
       THEN /\ sem' = sem - 1
            /\ pc' = [pc EXCEPT ![i] = "check"]
            /\ check_start' = [check_start EXCEPT ![i] = now]
            /\ sem_waiters' = sem_waiters
       ELSE /\ sem' = sem
            /\ pc' = [pc EXCEPT ![i] = "sem"]
            /\ check_start' = check_start
            /\ sem_waiters' = Append(sem_waiters, i)
    /\ UNCHANGED <<now, max_concurrency, demo_mode, scan_pc, username, providers, chosen,
                   tor_proxy_url, clearnet_proxy_url, open_clients, outcome,
                   res, raw_res, results, enabled_addon_names, dynamic_addons,
                   progress_callback, cb_calls, addons_to_run, addon_pc,
                   addon_args, returned>>
    /\ UNCHANGED probe_vars
    /\ UNCHANGED other

\* the clients left open when the `async with AsyncExitStack()` block is left
\* only by a normal return
exit_stack_return_only(how) == IF how = "return" THEN {} ELSE open_clients

\* the clients left open when the `async with AsyncExitStack()` block is
\* left, by a return, an exception or a cancellation
exit_stack(how) == {}

\* `if progress_callback: progress_callback(res)`
Invoke(calls, r) == IF progress_callback # None THEN Append(calls, r) ELSE calls

\* the first exception of a probe task reaches scan_username through
\* gather and leaves the client block; later ones find nobody waiting
GatherRaise ==
    IF scan_pc = "probes"
    THEN scan_pc' = "raised" /\ open_clients' = exit_stack("raise")
    ELSE UNCHANGED <<scan_pc, open_clients>>

\* check returns within the outer timeout; the task emits the result and
\* leaves the semaphore
CheckReturn(i) ==
    /\ pc[i] = "check"
    /\ now <= Deadline(i)
    /\ outcome' = [outcome EXCEPT ![i] = "returned"]
    /\ raw_res' = [raw_res EXCEPT ![i] =
                 CheckResult(prov(i), username, now, now - check_start[i])]
    /\ res' = [res EXCEPT ![i] = Redact(raw_res'[i])]
    /\ cb_calls' = [cb_calls EXCEPT ![i] = Invoke(cb_calls[i], res'[i])]
    /\ ReleaseSem(i, "done")
    /\ UNCHANGED <<now, next_allowed, max_concurrency, demo_mode, scan_pc, username,
                   providers, chosen, tor_proxy_url, clearnet_proxy_url,
                   open_clients, use_client, wait_ret, results,
                   enabled_addon_names, dynamic_addons, progress_callback,
                   addons_to_run, addon_pc, addon_args, returned>>
    /\ UNCHANGED probe_vars
    /\ UNCHANGED other

\* asyncio.wait_for gives up after provider_timeout seconds and cancels check
CheckTimeout(i) ==
    /\ pc[i] = "check"
    /\ now >= Deadline(i)
    /\ outcome' = [outcome EXCEPT ![i] = "timeout"]
    /\ raw_res' = [raw_res EXCEPT ![i] = TimeoutResult(prov(i), username, now)]
    /\ res' = [res EXCEPT ![i] = Redact(raw_res'[i])]
    /\ cb_calls' = [cb_calls EXCEPT ![i] = Invoke(cb_calls[i], res'[i])]
    /\ ReleaseSem(i, "done")
    /\ UNCHANGED <<now, next_allowed, max_concurrency, demo_mode, scan_pc, username,
                   providers, chosen, tor_proxy_url, clearnet_proxy_url,
                   open_clients, use_client, wait_ret, results,
                   enabled_addon_names, dynamic_addons, progress_callback,
                   addons_to_run, addon_pc, addon_args, returned>>
    /\ UNCHANGED probe_vars
    /\ UNCHANGED other

\* check raises something other than asyncio.TimeoutError: nothing in
\* run_one catches it, the task fails, and gather re-raises it in
\* scan_username, which leaves the AsyncExitStack
CheckRaise(i) ==
    /\ pc[i] = "check"
    /\ now <= Deadline(i)
    /\ outcome' = [outcome EXCEPT ![i] = "raised"]
    /\ ReleaseSem(i, "failed")
    /\ GatherRaise
    /\ UNCHANGED <<now, next_allowed, max_concurrency, demo_mode, username, providers,
                   chosen, tor_proxy_url, clearnet_proxy_url, use_client,
                   wait_ret, res, raw_res, results, enabled_addon_names, dynamic_addons,
                   progress_callback, cb_calls, addons_to_run, addon_pc,
                   addon_args, returned>>
    /\ UNCHANGED probe_vars
    /\ UNCHANGED other

\* check returns and the progress callback, called with the result, raises:
\* the exception leaves run_one as one raised by check does
CallbackRaise(i) ==
    /\ pc[i] = "check"
    /\ now <= Deadline(i)
    /\ progress_callback # None
    /\ outcome' = [outcome EXCEPT ![i] = "returned"]
    /\ cb_calls' = [cb_calls EXCEPT ![i] = Append(cb_calls[i],
           Redact(CheckResult(prov(i), username, now, now - check_start[i])))]
    /\ ReleaseSem(i, "failed")
    /\ GatherRaise
    /\ UNCHANGED <<now, next_allowed, max_concurrency, demo_mode, username, providers,
                   chosen, tor_proxy_url, clearnet_proxy_url, use_client,
                   wait_ret, res, raw_res, results, enabled_addon_names, dynamic_addons,
                   progress_callback, addons_to_run, addon_pc, addon_args,
                   returned>>
    /\ UNCHANGED probe_vars
    /\ UNCHANGED other

(* ----------------------- aggregation and addons ----------------------- *)

\* the sort key without case folding
SortKey_raw(r) == r.provider

\* key=lambda r: r.provider.lower()
SortKey(r) == Lower(r.provider)

\* sorted(): stable, ascending by key
RECURSIVE InsertByKey(_, _)
InsertByKey(r, s) ==
    IF s = <<>> THEN <<r>>
    ELSE IF StrLess(SortKey(r), SortKey(Head(s))) THEN <<r>> \o s
    ELSE <<Head(s)>> \o InsertByKey(r, Tail(s))

RECURSIVE sorted(_)
sorted(s) ==
    IF s = <<>> THEN <<>>
    ELSE InsertByKey(s[Len(s)], sorted(SubSeq(s, 1, Len(s) - 1)))

\* a record an addon appends to the shared list
AddonRecord(ident, t) ==
    [ provider      |-> NameZz,
      username      |-> ident,
      url           |-> <<"https://", "h3", "/">>,
      status        |-> "FOUND",
      http_status   |-> None,
      elapsed_ms    |-> 0,
      evidence      |-> <<>>,
      profile       |-> <<>>,
      error         |-> None,
      timestamp_iso |-> t ]

\* self.addon_registry: the names it holds, each standing for its addon
addon_registry == {"r1", "r2"}

\* the addon object behind a registered name, and the j-th dynamic addon
Registered(name) == <<"registered", name>>

Dynamic(j) == <<"dynamic", IF j = 1 THEN "d1" ELSE IF j = 2 THEN "d2" ELSE "d3">>

\* values of load_enabled_addons()
EnabledLists == {<<>>, <<"r1">>, <<"r0", "r2">>}

\* values of the dynamic_addons argument; the empty list stands for None
\* as well, which `if dynamic_addons:` treats alike
DynamicLists == {[j \in 1..n |-> Dynamic(j)] : n \in 0..MaxAddons}

\* `[self.addon_registry[name] for name in ... if name in self.addon_registry]`
RECURSIVE EnabledRegistered(_)
EnabledRegistered(names) ==
    IF names = <<>> THEN <<>>
    ELSE IF Head(names) \in addon_registry
         THEN <<Registered(Head(names))>> \o EnabledRegistered(Tail(names))
         ELSE EnabledRegistered(Tail(names))

\* every registered addon, enabled or not, then the dynamic ones
AddonsToRun_all(names, dyn) ==
    <<Registered("r1"), Registered("r2")>> \o (IF dyn # <<>> THEN dyn ELSE <<>>)

\* the addons_to_run list of scan_username
AddonsToRun(names, dyn) ==
    EnabledRegistered(names) \o (IF dyn # <<>> THEN dyn ELSE <<>>)

\* `addon.run(username, results, client_direct, self.limiter)`
AddonRunArgs ==
    [ username |-> username,
      results  |-> "results",
      client   |-> "client_direct",
      limiter  |-> "self.limiter" ]

\* the first gather returns as soon as one probe task has finished
gather_ready_any == \E i \in Tasks : pc[i] = "done"

\* `await asyncio.gather(*tasks)` returns: every probe task has returned
gather_ready == \A i \in Tasks : pc[i] = "done"

\* a gather that hands back re-stamped copies of the task results
gather_results_restamped == [i \in Tasks |-> [res[i] EXCEPT !.timestamp_iso = -1]]

\* `results = await asyncio.gather(*tasks)`: the records the tasks returned
gather_results == [i \in Tasks |-> res[i]]

\* gather returns once every probe task has returned its result; the addon
\* tasks are created
GatherDone ==
    /\ scan_pc = "probes"
    /\ gather_ready
    /\ results' = gather_results
    /\ addons_to_run' = AddonsToRun(enabled_addon_names, dynamic_addons)
    /\ addon_pc' = [j \in DOMAIN addons_to_run' |-> "pending"]
    /\ addon_args' = [j \in DOMAIN addons_to_run' |-> AddonRunArgs]
    /\ scan_pc' = "addons"
    /\ UNCHANGED <<now, next_allowed, max_concurrency, demo_mode, username, providers,
                   chosen, tor_proxy_url, clearnet_proxy_url, open_clients,
                   sem, sem_waiters, pc, use_client, wait_ret, check_start,
                   outcome, res, raw_res, enabled_addon_names, dynamic_addons,
                   progress_callback, cb_calls, returned>>
    /\ UNCHANGED probe_vars
    /\ UNCHANGED other

\* an addon's run completes, having left the list alone or appended to it
AddonRun(j, b) ==
    /\ scan_pc = "addons"
    /\ addon_pc[j] = "pending"
    /\ b \in {"noop", "append"}
    /\ results' = IF b = "append"
                  THEN Append(results, AddonRecord(username, now))
                  ELSE results
    /\ addon_pc' = [addon_pc EXCEPT ![j] = "done"]
    /\ UNCHANGED <<now, next_allowed, max_concurrency, demo_mode, scan_pc, username,
                   providers, chosen, tor_proxy_url, clearnet_proxy_url,
                   open_clients, sem, sem_waiters, pc, use_client, wait_ret,
                   check_start, outcome, res, raw_res, enabled_addon_names,
                   dynamic_addons, progress_callback, cb_calls, addons_to_run,
                   addon_args, returned>>
    /\ UNCHANGED probe_vars
    /\ UNCHANGED other

\* an addon's run raises: the second gather re-raises it in scan_username
AddonRaise(j) ==
    /\ scan_pc = "addons"
    /\ addon_pc[j] = "pending"
    /\ addon_pc' = [addon_pc EXCEPT ![j] = "raised"]
    /\ scan_pc' = "raised"
    /\ open_clients' = exit_stack("raise")
    /\ UNCHANGED <<now, next_allowed, max_concurrency, demo_mode, username, providers,
                   chosen, tor_proxy_url, clearnet_proxy_url, sem, sem_waiters,
                   pc, use_client, wait_ret, check_start, outcome, res, raw_res,
                   results, enabled_addon_names, dynamic_addons,
                   progress_callback, cb_calls, addons_to_run, addon_args,
                   returned>>
    /\ UNCHANGED probe_vars
    /\ UNCHANGED other

\* every addon task is done: the clients are closed and the sorted list is
\* returned
Return ==
    /\ scan_pc = "addons"
    /\ \A j \in DOMAIN addon_pc : addon_pc[j] = "done"
    /\ open_clients' = exit_stack("return")
    /\ returned' = sorted(results)
    /\ scan_pc' = "returned"
    /\ UNCHANGED <<now, next_allowed, max_concurrency, demo_mode, username, providers,
                   chosen, tor_proxy_url, clearnet_proxy_url, sem, sem_waiters,
                   pc, use_client, wait_ret, check_start, outcome, res, raw_res,
                   results, enabled_addon_names, dynamic_addons,
                   progress_callback, cb_calls, addons_to_run, addon_pc,
                   addon_args>>
    /\ UNCHANGED probe_vars
    /\ UNCHANGED other

\* what a cancellation leaves of a task: only one inside check is stopped
cancel_task_in_check(st) == IF st = "check" THEN "cancelled" ELSE st

\* what a cancellation leaves of a task: gather cancels every child that
\* has not finished, wherever it is suspended
cancel_task(st) ==
    IF st \in {"wait", "sem", "check", "pending"} THEN "cancelled" ELSE st

\* the caller cancels scan_username while it awaits one of its gathers: the
\* children are cancelled and unwind, leaving the semaphore, then the
\* CancelledError leaves the client block
Cancel ==
    /\ scan_pc \in {"probes", "addons"}
    /\ pc' = [i \in Tasks |-> cancel_task(pc[i])]
    /\ addon_pc' = [j \in DOMAIN addon_pc |-> cancel_task(addon_pc[j])]
    /\ sem' = max_concurrency - Cardinality({i \in Tasks : pc'[i] = "check"})
    /\ sem_waiters' = SelectSeq(sem_waiters, LAMBDA i : pc'[i] = "sem")
    /\ scan_pc' = "cancelled"
    /\ open_clients' = exit_stack("cancel")
    /\ UNCHANGED <<now, next_allowed, max_concurrency, demo_mode, username, providers,
                   chosen, tor_proxy_url, clearnet_proxy_url, use_client,
                   wait_ret, check_start, outcome, res, raw_res, results,
                   enabled_addon_names, dynamic_addons, progress_callback,
                   cb_calls, addons_to_run, addon_args, returned>>
    /\ UNCHANGED probe_vars
    /\ UNCHANGED other

\* the next instant of the clock: one step ahead, or the earliest deadline
\* of an in-flight check when that comes first
NextInstant ==
    LET ds == {Deadline(i) : i \in {k \in Tasks : pc[k] = "check"}}
                 \cup {now + TickSec}
    IN  CHOOSE d \in ds : \A e \in ds : d <= e

\* the clock advances while some probe task is unfinished; a due outer
\* timeout fires before it does
Tick ==
    /\ \E i \in Tasks : pc[i] \in {"wait", "sem", "check"}
    /\ \A i \in Tasks : pc[i] = "check" => now < Deadline(i)
    /\ NextInstant <= MaxTime
    /\ now' = NextInstant
    /\ UNCHANGED <<next_allowed, max_concurrency, demo_mode, scan_pc, username, providers,
                   chosen, tor_proxy_url, clearnet_proxy_url, open_clients,
                   sem, sem_waiters, pc, use_client, wait_ret, check_start,
                   outcome, res, raw_res, results, enabled_addon_names, dynamic_addons,
                   progress_callback, cb_calls, addons_to_run, addon_pc,
                   addon_args, returned>>
    /\ UNCHANGED probe_vars
    /\ UNCHANGED other

Next ==
    \/ \E ident \in Usernames, ps \in Filters, tor \in TorEnv,
          clearnet \in ClearnetEnv, dyn \in DynamicLists :
          ScanStart(ident, ps, tor, clearnet, dyn, None)
    \/ \E i \in Tasks : WaitReturn(i)
    \/ \E i \in Tasks : CheckReturn(i)
    \/ \E i \in Tasks : CheckTimeout(i)
    \/ \E i \in Tasks : CheckRaise(i)
    \/ GatherDone
    \/ \E j \in DOMAIN addon_pc, b \in AddonBehaviours : AddonRun(j, b)
    \/ \E j \in DOMAIN addon_pc : AddonRaise(j)
    \/ Return
    \/ Tick

Spec == Init /\ [][Next]_vars

(* ------------- scans with a callback, addons, cancellation ------------- *)

\* an engine with any of the enabled-addon lists
LifeInit ==
    /\ EngineInit
    /\ demo_mode = FALSE
    /\ enabled_addon_names \in EnabledLists

\* values of the progress_callback argument
Callbacks == {None, "progress_callback"}

LifeNext ==
    \/ \E ident \in Usernames, ps \in Filters, dyn \in DynamicLists,
          cb \in Callbacks :
          ScanStart(ident, ps, LifeTor, None, dyn, cb)
    \/ \E i \in Tasks : WaitReturn(i)
    \/ \E i \in Tasks : CheckReturn(i)
    \/ \E i \in Tasks : CheckTimeout(i)
    \/ \E i \in Tasks : CheckRaise(i)
    \/ \E i \in Tasks : CallbackRaise(i)
    \/ GatherDone
    \/ \E j \in DOMAIN addon_pc, b \in AddonBehaviours : AddonRun(j, b)
    \/ \E j \in DOMAIN addon_pc : AddonRaise(j)
    \/ Return
    \/ Cancel
    \/ Tick

LifecycleSpec == LifeInit /\ [][LifeNext]_vars

(* --------------------------- provider checks -------------------------- *)

\* ProviderResult(...): a field a provider omits takes its zero value
ProviderResult(p, ident, u, st, hs, err) ==
    [ provider    |-> p,
      username    |-> ident,
      url         |-> u,
      status      |-> st,
      http_status |-> hs,
      error       |-> err,
      profile     |-> <<>> ]

\* `data[:n]`
Slice(data, n) == SubSeq(data, 1, IF Len(data) < n THEN Len(data) ELSE n)

\* the records of a response that carries n of them
Data(n) == [k \in 1..n |-> k]

\* numbers of records in the answers of the breach services
RecordCounts == {MaxRecords - 1, MaxRecords}

\* LeakCheckProvider.check: the profile of a FOUND result
leakcheck_profile(data) ==
    LET display_data == Slice(data, 100) IN
    IF demo_mode
    THEN [result_count |-> Len(data),
          demo_mode    |-> TRUE,
          raw_results  |-> censor_breach_data(List(display_data))]
    ELSE [result_count |-> Len(data),
          raw_results  |-> List(display_data)]

\* SnusbaseProvider.check: the profile of a FOUND result
snusbase_profile(data) ==
    LET display_data == Slice(data, 100) IN
    IF demo_mode
    THEN [result_count |-> Len(data),
          demo_mode    |-> TRUE,
          raw_results  |-> censor_breach_data(List(data))]
    ELSE [result_count |-> Len(data),
          raw_results  |-> List(display_data)]

\* BreachVIPProvider.check: the profile of a FOUND result
breachvip_profile(data) ==
    LET display_data == Slice(data, 100) IN
    IF demo_mode
    THEN [result_count |-> Len(data),
          demo_mode    |-> TRUE,
          raw_results  |-> censor_breach_data(List(data))]
    ELSE [result_count |-> Len(data),
          raw_results  |-> List(display_data)]

\* how the part of check before its first await ends: with a result, with
\* an exception, or with n requests in flight
Returns(r) == [kind |-> "return", res |-> r, n |-> 0]

Raises(e) == [kind |-> "raise", res |-> e, n |-> 0]

Awaits(n) == [kind |-> "request", res |-> None, n |-> n]

\* status codes and bodies of the responses a service sends: a body with
\* records or a match, one without, one that reports a failure, and one the
\* provider's parsing chokes on
Codes == {200, 401, 403, 404, 429, 500, 503}

Bodies == {"hit", "miss", "fail", "bad"}

\* str(e) of the exceptions a request raises; httpx timeouts carry no text
TransportErrors == {"", "All connection attempts failed"}

\* str(e) of a parsing failure
ParseError == "Expecting value: line 1 column 1 (char 0)"

\* LeakCheckProvider._determine_query_type
leakcheck_determine_query_type(term) ==
    IF Has(term, "@") /\ Has(term, ".") THEN "email"
    ELSE IF IsPhone(term) THEN "phone"
    ELSE IF IpTest(term) = "ValueError" THEN "ValueError"
    ELSE "auto"

\* the `url` of LeakCheckProvider.check
leakcheck_url(term) ==
    IF term # <<>>
    THEN <<"https://", "leakcheck.io", "/", "api/v2/query", "/">> \o term
    ELSE <<"https://", "leakcheck.io", "/", "api/v2/query">>

\* a check that rejects an empty identifier before it looks for the key
leakcheck_start_empty_first(ident, key) ==
    LET search_term == strip(ident)
        u == leakcheck_url(search_term)
    IN  IF search_term = <<>>
        THEN Returns(ProviderResult(NameLeakcheck, ident, u, "ERROR", None,
                 "Empty input."))
        ELSE IF ~key
        THEN Returns(ProviderResult(NameLeakcheck, ident, u, "UNKNOWN", None,
                 "Skipped: LeakCheck API key not set in Settings (leakcheck_api_key)."))
        ELSE IF leakcheck_determine_query_type(search_term) = "ValueError"
        THEN Raises("ValueError")
        ELSE Awaits(1)

\* LeakCheckProvider.check up to the request
leakcheck_start(ident, key) ==
    LET search_term == strip(ident)
        u == leakcheck_url(search_term)
    IN  IF ~key
        THEN Returns(ProviderResult(NameLeakcheck, ident, u, "UNKNOWN", None,
                 "Skipped: LeakCheck API key not set in Settings (leakcheck_api_key)."))
        ELSE IF search_term = <<>>
        THEN Returns(ProviderResult(NameLeakcheck, ident, u, "ERROR", None,
                 "Empty input."))
        ELSE IF leakcheck_determine_query_type(search_term) = "ValueError"
        THEN Raises("ValueError")
        ELSE Awaits(1)

\* LeakCheckProvider.check from the response on
leakcheck_finish(ident, r) ==
    LET u == leakcheck_url(strip(ident)) IN
    CASE r.code = 200 /\ r.body = "bad" ->
            ProviderResult(NameLeakcheck, ident, u, "ERROR", None, ParseError)
      [] r.code = 200 /\ r.body = "fail" ->
            ProviderResult(NameLeakcheck, ident, u, "ERROR", r.code,
                "LeakCheck returned success=false.")
      [] r.code = 200 /\ r.body = "hit" ->
            [ProviderResult(NameLeakcheck, ident, u, "FOUND", r.code, None)
                EXCEPT !.profile = leakcheck_profile(r.data)]
      [] r.code = 200 /\ r.body = "miss" ->
            ProviderResult(NameLeakcheck, ident, u, "NOT_FOUND", r.code, None)
      [] r.code = 401 ->
            ProviderResult(NameLeakcheck, ident, u, "ERROR", r.code,
                "Invalid API key (401) - check leakcheck_api_key in Settings.")
      [] r.code = 429 ->
            ProviderResult(NameLeakcheck, ident, u, "BLOCKED", r.code,
                "Rate limited (429) - LeakCheck limit is 3 req/sec.")
      [] r.code = 503 ->
            ProviderResult(NameLeakcheck, ident, u, "BLOCKED", r.code,
                "LeakCheck service unavailable (503).")
      [] OTHER ->
            ProviderResult(NameLeakcheck, ident, u, "UNKNOWN", r.code,
                "Unexpected response.")

\* SnusbaseProvider._determine_types
snusbase_determine_types(term) ==
    IF Has(term, "@") /\ Has(term, ".") THEN <<"email">>
    ELSE IF IsPhone(term) THEN <<"ident", "email">>
    ELSE IF IpTest(term) = "ValueError" THEN <<"ValueError">>
    ELSE IF IpTest(term) = "yes" THEN <<"lastip">>
    ELSE <<"email", "ident">>

\* SnusbaseProvider.check up to the request
snusbase_start(ident, key) ==
    LET u == build_url(NameSnusbase, ident)
        search_term == strip(ident)
    IN  IF ~key
        THEN Returns(ProviderResult(NameSnusbase, ident, u, "UNKNOWN", None,
                 "Skipped: Snusbase API key not set in Settings (snusbase_api_key)."))
        ELSE IF search_term = <<>>
        THEN Returns(ProviderResult(NameSnusbase, ident, u, "ERROR", None,
                 "Empty input."))
        ELSE IF snusbase_determine_types(search_term) = <<"ValueError">>
        THEN Raises("ValueError")
        ELSE Awaits(1)

\* SnusbaseProvider.check from the response on
snusbase_finish(ident, r) ==
    LET u == build_url(NameSnusbase, ident) IN
    CASE r.code = 200 /\ r.body = "bad" ->
            ProviderResult(NameSnusbase, ident, u, "ERROR", None, ParseError)
      [] r.code = 200 /\ r.body = "hit" ->
            [ProviderResult(NameSnusbase, ident, u, "FOUND", r.code, None)
                EXCEPT !.profile = snusbase_profile(r.data)]
      [] r.code = 200 /\ r.body \in {"miss", "fail"} ->
            ProviderResult(NameSnusbase, ident, u, "NOT_FOUND", r.code, None)
      [] r.code = 401 ->
            ProviderResult(NameSnusbase, ident, u, "ERROR", r.code,
                "Invalid API key (401) - check snusbase_api_key in Settings.")
      [] r.code = 429 ->
            ProviderResult(NameSnusbase, ident, u, "BLOCKED", r.code,
                "Rate limited (2048 req/day exceeded).")
      [] r.code = 503 ->
            ProviderResult(NameSnusbase, ident, u, "BLOCKED", r.code,
                "Snusbase service unavailable (503).")
      [] OTHER ->
            ProviderResult(NameSnusbase, ident, u, "UNKNOWN", r.code,
                "Unexpected response.")

\* BreachVIPProvider._determine_search_fields
breachvip_determine_search_fields(term) ==
    LET fields ==
            IF Has(term, "@") /\ Has(term, ".") THEN <<"email", "ident", "name">>
            ELSE IF Has(term, ".") /\ ~Has(term, "@")
            THEN <<"ident", "email", "name", "domain">>
            ELSE <<"ident", "email", "name">>
        phone == IF IsPhone(term) THEN <<"phone">> ELSE <<>>
        discordid ==
            IF isdigit(term) /\ 17 <= StrLen(term) /\ StrLen(term) <= 20
            THEN <<"discordid">> ELSE <<>>
        uuid == IF StrLen(term) = 36 /\ Has(term, "-") THEN <<"uuid">> ELSE <<>>
        ip == IF IpTest(term) = "yes" THEN <<"ip">> ELSE <<>>
    IN  IF IpTest(term) = "ValueError" THEN <<"ValueError">>
        ELSE fields \o phone \o discordid \o uuid \o ip \o <<"password">>

\* BreachVIPProvider.check up to the request
breachvip_start(ident) ==
    LET u == build_url(NameBreachvip, ident)
        search_term == strip(ident)
    IN  IF search_term = <<>>
        THEN Returns(ProviderResult(NameBreachvip, ident, u, "ERROR", None,
                 "empty input"))
        ELSE IF breachvip_determine_search_fields(search_term) = <<"ValueError">>
        THEN Raises("ValueError")
        ELSE Awaits(1)

\* BreachVIPProvider.check from the response on
breachvip_finish(ident, r) ==
    LET u == build_url(NameBreachvip, ident) IN
    CASE r.code = 200 /\ r.body = "bad" ->
            ProviderResult(NameBreachvip, ident, u, "ERROR", None, ParseError)
      [] r.code = 200 /\ r.body = "hit" ->
            [ProviderResult(NameBreachvip, ident, u, "FOUND", r.code, None)
                EXCEPT !.profile = breachvip_profile(r.data)]
      [] r.code = 200 /\ r.body \in {"miss", "fail"} ->
            ProviderResult(NameBreachvip, ident, u, "NOT_FOUND", r.code, None)
      [] r.code = 400 ->
            ProviderResult(NameBreachvip, ident, u, "ERROR", r.code,
                "Bad request - check search parameters")
      [] r.code = 403 ->
            ProviderResult(NameBreachvip, ident, u, "BLOCKED", r.code,
                "Access Denied (Cloudflare).")
      [] r.code = 405 ->
            ProviderResult(NameBreachvip, ident, u, "ERROR", r.code,
                "Method not allowed")
      [] r.code = 429 ->
            ProviderResult(NameBreachvip, ident, u, "BLOCKED", r.code,
                "Rate limited (15 requests/minute) - wait 1 minute")
      [] r.code = 503 ->
            ProviderResult(NameBreachvip, ident, u, "BLOCKED", r.code,
                "Service unavailable (503)")
      [] r.code = 500 ->
            ProviderResult(NameBreachvip, ident, u, "ERROR", r.code,
                "Internal server error")
      [] OTHER ->
            ProviderResult(NameBreachvip, ident, u, "UNKNOWN", r.code,
                "Unexpected response")

\* HIBPProvider.check up to the two gathered requests
hibp_start(ident, key) ==
    LET u == build_url(NameHibp, ident) IN
    IF ~key
    THEN Returns(ProviderResult(NameHibp, ident, u, "UNKNOWN", None,
             "Skipped: HIBP API key not set in Settings (hibp_api_key)."))
    ELSE IF Has(ident, "*")
    THEN Returns(ProviderResult(NameHibp, ident, u, "ERROR", None,
             "HIBP does not support wildcard searches."))
    ELSE IF ~IsEmail(ident)
    THEN Returns(ProviderResult(NameHibp, ident, u, "NOT_FOUND", None,
             "Invalid format: HIBP requires an email address."))
    ELSE Awaits(2)

\* hibp with a server error taking precedence over a rate limit
hibp_finish_error_first(ident, breach_res, paste_res) ==
    LET u == build_url(NameHibp, ident)
        status ==
            IF breach_res.code = 200 \/ paste_res.code = 200 THEN "FOUND"
            ELSE IF breach_res.code >= 500 \/ paste_res.code >= 500 THEN "ERROR"
            ELSE IF breach_res.code = 429 \/ paste_res.code = 429 THEN "BLOCKED"
            ELSE IF breach_res.code = 404 /\ paste_res.code = 404 THEN "NOT_FOUND"
            ELSE "UNKNOWN"
    IN  IF \/ breach_res.code = 200 /\ breach_res.body = "bad"
           \/ paste_res.code = 200 /\ paste_res.body = "bad"
        THEN ProviderResult(NameHibp, ident, u, "ERROR", None, ParseError)
        ELSE ProviderResult(NameHibp, ident, u, status, breach_res.code, None)

\* HIBPProvider.check from the two responses on
hibp_finish(ident, breach_res, paste_res) ==
    LET u == build_url(NameHibp, ident)
        found == breach_res.code = 200 \/ paste_res.code = 200
        status ==
            IF found THEN "FOUND"
            ELSE IF breach_res.code = 429 \/ paste_res.code = 429 THEN "BLOCKED"
            ELSE IF breach_res.code = 404 /\ paste_res.code = 404 THEN "NOT_FOUND"
            ELSE IF breach_res.code >= 500 \/ paste_res.code >= 500 THEN "ERROR"
            ELSE "UNKNOWN"
        error_msg ==
            IF status = "BLOCKED" THEN "HIBP API Rate Limit Exceeded (429)."
            ELSE IF status = "ERROR" THEN "HIBP API Error"
            ELSE None
    IN  IF \/ breach_res.code = 200 /\ breach_res.body = "bad"
           \/ paste_res.code = 200 /\ paste_res.body = "bad"
        THEN ProviderResult(NameHibp, ident, u, "ERROR", None, ParseError)
        ELSE ProviderResult(NameHibp, ident, u, status, breach_res.code, error_msg)

\* StackOverflowProvider.check up to the request
stackoverflow_start(ident) ==
    IF Digits(ident) = <<>>
    THEN Returns(ProviderResult(NameStackoverflow, ident,
             build_url(NameStackoverflow, ident), "NOT_FOUND", None,
             "Invalid format. Stack Overflow requires a numeric user ID."))
    ELSE Awaits(1)

\* StackOverflowProvider.check from the response on
stackoverflow_finish(ident, r) ==
    ProviderResult(NameStackoverflow, Digits(ident),
        build_url(NameStackoverflow, ident),
        IF r.code = 200 /\ r.body = "hit" THEN "FOUND" ELSE "NOT_FOUND",
        r.code, None)

\* GoodreadsProvider.check from the response on
goodreads_finish(ident, r) ==
    ProviderResult(NameGoodreads, ident,
        IF r.body = "hit"
        THEN <<"https://", "www.goodreads.com", "/", "user/show/">>
        ELSE build_url(NameGoodreads, ident),
        IF r.body = "hit" THEN "FOUND" ELSE "NOT_FOUND",
        r.code, None)

\* DiscordProvider.check
discord_check(ident) ==
    LET clean_user == strip(ident)
        is_id == IsNumericId(clean_user)
        is_invite == ~is_id /\ IsInvite(clean_user)
    IN  IF ~(is_id \/ is_invite)
        THEN ProviderResult(NameDiscord, ident, build_url(NameDiscord, ident),
                 "NOT_FOUND", None, "Invalid Discord ID or invite code format.")
        ELSE ProviderResult(NameDiscord, ident, build_url(NameDiscord, ident),
                 "UNKNOWN", None,
                 "Verification not possible. Discord profiles are not public.")

\* goyimtv asking again after a server error as well
goyimtv_retry_codes_with_500 == {403, 503, 429, 500}

\* the statuses on which GoyimTVProvider.check sleeps and asks again
goyimtv_retry_codes == {403, 503, 429}

\* `await asyncio.sleep(2.0)`
goyimtv_retry_sleep == 2

\* GoyimTVProvider.check from the last response on
goyimtv_finish(ident, r) ==
    LET u == build_url(NameGoyimtv, ident) IN
    CASE r.body = "bad" ->
            ProviderResult(NameGoyimtv, ident, u, "ERROR", None,
                "'NoneType' object has no attribute 'strip'")
      [] r.body = "hit" ->
            ProviderResult(NameGoyimtv, ident, u, "FOUND", r.code, None)
      [] OTHER ->
            ProviderResult(NameGoyimtv, ident, u, "NOT_FOUND", r.code, None)

\* check of provider p up to its first await
check_begin(p, ident, key) ==
    CASE p = NameLeakcheck -> leakcheck_start(ident, key)
      [] p = NameSnusbase -> snusbase_start(ident, key)
      [] p = NameBreachvip -> breachvip_start(ident)
      [] p = NameHibp -> hibp_start(ident, key)
      [] p = NameStackoverflow -> stackoverflow_start(ident)
      [] p = NameGoodreads -> Awaits(1)
      [] p = NameDiscord -> Returns(discord_check(ident))
      [] p = NameGoyimtv -> Awaits(1)

\* check of provider p once every request it awaited has its response
check_end(p, ident, rs) ==
    CASE p = NameLeakcheck -> leakcheck_finish(ident, rs[Len(rs)])
      [] p = NameSnusbase -> snusbase_finish(ident, rs[Len(rs)])
      [] p = NameBreachvip -> breachvip_finish(ident, rs[Len(rs)])
      [] p = NameHibp -> hibp_finish(ident, rs[1], rs[Len(rs)])
      [] p = NameStackoverflow -> stackoverflow_finish(ident, rs[Len(rs)])
      [] p = NameGoodreads -> goodreads_finish(ident, rs[Len(rs)])
      [] p = NameGoyimtv -> goyimtv_finish(ident, rs[Len(rs)])

\* the `except Exception as e` branch of provider p around its requests
check_except(p, ident, msg) ==
    ProviderResult(p, ident,
        IF p = NameLeakcheck THEN leakcheck_url(strip(ident)) ELSE build_url(p, ident),
        "ERROR", None, msg)

\* the providers that open `httpx.AsyncClient(trust_env=False)` themselves
PrivateClientProviders == {NameLeakcheck, NameSnusbase, NameBreachvip}

\* a provider that sends every request through the direct client
request_client_direct(p, client) ==
    IF p \in PrivateClientProviders THEN "private" ELSE "client_direct"

\* the client a provider's request goes through: its own, or the one
\* check was handed
request_client(p, client) ==
    IF p \in PrivateClientProviders THEN "private" ELSE client

\* a request as it is sent: the client it goes through, the instant, and no
\* response yet
Request(p, client) ==
    [via |-> request_client(p, client), code |-> 0, body |-> "", data |-> <<>>,
     at |-> now]

\* UA_PROFILES.get(name, {}): the headers of a browser profile
UA_PROFILES(name) ==
    IF name = "desktop_chrome"
    THEN [k \in {"User-Agent", "Accept"} |->
             IF k = "User-Agent" THEN "Mozilla/5.0" ELSE "*/*"]
    ELSE <<>>

\* merge_headers(base, extra): a new mapping, extra over base
merge_headers(base, extra) ==
    [k \in DOMAIN base \cup DOMAIN extra |->
        IF k \in DOMAIN extra THEN extra[k] ELSE base[k]]

\* the `headers` run_one builds for a provider; every provider of the
\* repository keeps ua_profile = "desktop_chrome"
run_one_headers == merge_headers(UA_PROFILES("desktop_chrome"), UA_PROFILES("desktop_chrome"))

\* the assignments `headers[...] = ...` of GoyimTVProvider.check
goyimtv_headers ==
    [k \in {"Accept", "Accept-Language", "Referer", "Upgrade-Insecure-Requests",
            "Sec-Fetch-Dest", "Sec-Fetch-Mode", "Sec-Fetch-Site", "Sec-Fetch-User"} |->
        CASE k = "Accept" -> "text/html,application/xhtml+xml"
          [] k = "Accept-Language" -> "en-US,en;q=0.5"
          [] k = "Referer" -> "https://goyimtv.st/"
          [] k = "Upgrade-Insecure-Requests" -> "1"
          [] k = "Sec-Fetch-Dest" -> "document"
          [] k = "Sec-Fetch-Mode" -> "navigate"
          [] k = "Sec-Fetch-Site" -> "same-origin"
          [] OTHER -> "?1"]

\* the mapping the engine handed to provider p's check, as check leaves it:
\* goyimtv assigns into it, hibp and breachvip work on a copy, the others
\* only read it or ignore it
check_headers(p, h) ==
    IF p = NameGoyimtv THEN merge_headers(h, goyimtv_headers) ELSE h

\* run_one's client selection followed by provider p's check, up to the
\* first await of check
ProbeCall(p, ident, key, tor, clearnet) ==
    /\ probe_pc = "idle"
    /\ probe' = p
    /\ username' = ident
    /\ api_key' = key
    /\ tor_proxy_url' = tor
    /\ clearnet_proxy_url' = clearnet
    /\ headers' = check_headers(p, run_one_headers)
    /\ handed' = select_client(build_url(p, ident), p,
                     IF Truthy(tor) THEN "client_tor" ELSE None,
                     IF Truthy(clearnet) THEN "client_clearnet_proxy" ELSE None)
    /\ LET c == check_begin(p, ident, key) IN
         CASE c.kind = "return" ->
                /\ probe_pc' = "returned"
                /\ probe_res' = c.res
                /\ requests' = <<>>
           [] c.kind = "raise" ->
                /\ probe_pc' = "raised"
                /\ probe_res' = None
                /\ requests' = <<>>
           [] OTHER ->
                /\ probe_pc' = "await"
                /\ probe_res' = None
                /\ requests' = [k \in 1..c.n |-> Request(p, handed')]
    /\ UNCHANGED <<other, now, next_allowed, max_concurrency, demo_mode, scan_pc, providers,
                   chosen, open_clients, sem, sem_waiters, pc, use_client,
                   wait_ret, check_start, outcome, res, raw_res, results,
                   enabled_addon_names, dynamic_addons, progress_callback,
                   cb_calls, addons_to_run, addon_pc, addon_args, returned>>

\* the requests still without a response
Pending == {k \in DOMAIN requests : requests[k].code = 0}

\* how many records an answer carries: the breach services list their
\* records in a 200 with a match; elsewhere the number plays no part
Carried(p, code, body) ==
    IF p \in PrivateClientProviders /\ code = 200 /\ body = "hit"
    THEN RecordCounts ELSE {0}

\* the response to the oldest unanswered request arrives; when none is left
\* unanswered check goes on: goyimtv sleeps before asking again, every other
\* provider returns its result
Respond(code, body, n) ==
    /\ probe_pc = "await"
    /\ n \in Carried(probe, code, body)
    /\ LET k == CHOOSE m \in Pending : \A o \in Pending : m <= o
           rs == [requests EXCEPT ![k].code = code, ![k].body = body,
                                  ![k].data = Data(n)]
       IN  /\ requests' = rs
           /\ IF Pending # {k}
              THEN UNCHANGED <<probe_pc, probe_res>>
              ELSE IF probe = NameGoyimtv /\ Len(rs) = 1 /\ code \in goyimtv_retry_codes
              THEN probe_pc' = "sleep" /\ UNCHANGED probe_res
              ELSE /\ probe_pc' = "returned"
                   /\ probe_res' = check_end(probe, username, rs)
    /\ UNCHANGED <<other, now, next_allowed, max_concurrency, demo_mode, scan_pc, username,
                   providers, chosen, tor_proxy_url, clearnet_proxy_url,
                   open_clients, sem, sem_waiters, pc, use_client, wait_ret,
                   check_start, outcome, res, raw_res, results, enabled_addon_names,
                   dynamic_addons, progress_callback, cb_calls, addons_to_run,
                   addon_pc, addon_args, returned, probe, api_key, handed, headers>>

\* `await asyncio.sleep(2.0)` is over and goyimtv sends its second GET
Retry ==
    /\ probe_pc = "sleep"
    /\ now' = now + goyimtv_retry_sleep
    /\ requests' = Append(requests, [Request(probe, handed) EXCEPT !.at = now'])
    /\ probe_pc' = "await"
    /\ UNCHANGED <<other, next_allowed, max_concurrency, demo_mode, scan_pc, username,
                   providers, chosen, tor_proxy_url, clearnet_proxy_url,
                   open_clients, sem, sem_waiters, pc, use_client, wait_ret,
                   check_start, outcome, res, raw_res, results, enabled_addon_names,
                   dynamic_addons, progress_callback, cb_calls, addons_to_run,
                   addon_pc, addon_args, returned, probe, api_key, handed, headers,
                   probe_res>>

\* a request raises instead of answering: the provider's `except` turns the
\* exception into a result
TransportError(msg) ==
    /\ probe_pc = "await"
    /\ probe_pc' = "returned"
    /\ probe_res' = check_except(probe, username, msg)
    /\ UNCHANGED <<other, now, next_allowed, max_concurrency, demo_mode, scan_pc, username,
                   providers, chosen, tor_proxy_url, clearnet_proxy_url,
                   open_clients, sem, sem_waiters, pc, use_client, wait_ret,
                   check_start, outcome, res, raw_res, results, enabled_addon_names,
                   dynamic_addons, progress_callback, cb_calls, addons_to_run,
                   addon_pc, addon_args, returned, probe, api_key, handed, headers,
                   requests>>

\* an engine on which no scan runs
ProbeInit ==
    /\ EngineInit
    /\ demo_mode \in BOOLEAN
    /\ enabled_addon_names = <<>>

ProbeNext ==
    \/ \E p \in Providers, ident \in Identifiers, key \in BOOLEAN,
          tor \in TorEnv, clearnet \in ClearnetEnv :
          ProbeCall(p, ident, key, tor, clearnet)
    \/ \E code \in Codes, body \in Bodies, n \in RecordCounts \cup {0} :
          Respond(code, body, n)
    \/ Retry
    \/ \E msg \in TransportErrors : TransportError(msg)

ProbeSpec == ProbeInit /\ [][ProbeNext]_vars

(* ------------------------ scans that must end ------------------------- *)

\* an engine constructed with any max_concurrency that int() and
\* asyncio.Semaphore accept, zero included
LiveInit ==
    /\ max_concurrency \in 0..MaxConc
    /\ NoScan
    /\ demo_mode = FALSE
    /\ enabled_addon_names = <<>>

\* the clock does not move on while a task whose gate is open has yet to
\* be resumed: the event loop runs a task whose sleep is over at once
LiveTick ==
    /\ \A i \in Tasks : pc[i] = "wait" => ~LimiterOpen(wait_arg(i), now)
    /\ Tick

LiveNext ==
    \/ \E ident \in Usernames, ps \in Filters, dyn \in DynamicLists :
          ScanStart(ident, ps, None, None, dyn, None)
    \/ \E i \in Tasks : WaitReturn(i)
    \/ \E i \in Tasks : CheckReturn(i)
    \/ \E i \in Tasks : CheckTimeout(i)
    \/ \E i \in Tasks : CheckRaise(i)
    \/ GatherDone
    \/ \E j \in DOMAIN addon_pc, b \in AddonBehaviours : AddonRun(j, b)
    \/ \E j \in DOMAIN addon_pc : AddonRaise(j)
    \/ Return
    \/ LiveTick

\* the event loop keeps running what can run: tasks that are ready, timers
\* that are due, checks and addons that terminate
LiveSpec == LiveInit /\ [][LiveNext]_vars /\ WF_vars(LiveNext)

(* ------------------ two calls on one engine instance ------------------ *)

\* everything but the clock, the host gate and the second call
first_call_vars ==
    <<max_concurrency, demo_mode, scan_pc, username, providers, chosen,
      tor_proxy_url, clearnet_proxy_url, open_clients, sem, sem_waiters, pc,
      use_client, wait_ret, check_start, outcome, res, raw_res, results,
      enabled_addon_names, dynamic_addons, progress_callback, cb_calls,
      addons_to_run, addon_pc, addon_args, returned>>

OtherTasks == DOMAIN other.chosen

other_url(i) == build_url(other.chosen[i], other.username)

OtherDeadline(i) == other.check_start[i] + provider_timeout(other.chosen[i])

OtherInFlight == {i \in OtherTasks : other.pc[i] = "check"}

\* provider filters of the second call
OtherFilters == {<<NameC>>, <<NameB, NameA>>}

\* scan_username is called a second time on the engine, while the first
\* call runs or after it has returned: the call makes its own semaphore
\* and its own tasks
OtherStart(ident, ps) ==
    /\ scan_pc \in {"probes", "addons", "returned"}
    /\ other.scan_pc = "idle"
    /\ next_allowed' = limiter_at_scan_start
    /\ other' = [ scan_pc     |-> "probes",
                  username    |-> ident,
                  chosen      |-> Choose(ps),
                  sem         |-> new_semaphore,
                  sem_waiters |-> <<>>,
                  pc          |-> [i \in DOMAIN Choose(ps) |-> "wait"],
                  wait_ret    |-> [i \in DOMAIN Choose(ps) |-> -1],
                  check_start |-> [i \in DOMAIN Choose(ps) |-> -1] ]
    /\ UNCHANGED <<now, first_call_vars, probe_vars>>

\* run_one of the second call from the return of limiter.wait to the next
\* suspension point, on the engine's one limiter and the call's semaphore
OtherWaitReturn(i) ==
    /\ other.pc[i] = "wait"
    /\ LimiterOpen(other_url(i), now)
    /\ next_allowed' = LimiterAdvance(other_url(i), now)
    /\ other' = IF other.sem > 0
                THEN [other EXCEPT !.wait_ret[i] = now,
                                   !.sem = @ - 1,
                                   !.pc[i] = "check",
                                   !.check_start[i] = now]
                ELSE [other EXCEPT !.wait_ret[i] = now,
                                   !.pc[i] = "sem",
                                   !.sem_waiters = Append(@, i)]
    /\ UNCHANGED <<now, first_call_vars, probe_vars>>

\* a check of the second call returns or is cut off by the outer timeout;
\* the task leaves the call's semaphore, whose slot goes to the longest
\* waiter of that call
OtherCheckEnd(i) ==
    /\ other.pc[i] = "check"
    /\ now <= OtherDeadline(i)
    /\ other' = IF other.sem_waiters = <<>>
                THEN [other EXCEPT !.sem = @ + 1, !.pc[i] = "done"]
                ELSE LET w == Head(other.sem_waiters) IN
                     [other EXCEPT !.sem_waiters = Tail(@),
                                   !.pc[i] = "done",
                                   !.pc[w] = "check",
                                   !.check_start[w] = now]
    /\ UNCHANGED <<now, next_allowed, first_call_vars, probe_vars>>

\* every task of the second call is done and the call returns
OtherReturn ==
    /\ other.scan_pc = "probes"
    /\ \A i \in OtherTasks : other.pc[i] = "done"
    /\ other' = [other EXCEPT !.scan_pc = "returned"]
    /\ UNCHANGED <<now, next_allowed, first_call_vars, probe_vars>>

\* the next instant of the clock with two calls under way
OverlapInstant ==
    LET ds == {Deadline(i) : i \in InFlightTasks}
                 \cup {OtherDeadline(i) : i \in OtherInFlight}
                 \cup {now + TickSec}
    IN  CHOOSE d \in ds : \A e \in ds : d <= e

\* the clock advances while a task of either call is unfinished; a due
\* outer timeout fires before it does
OverlapTick ==
    /\ \/ \E i \in Tasks : pc[i] \in {"wait", "sem", "check"}
       \/ \E i \in OtherTasks : other.pc[i] \in {"wait", "sem", "check"}
    /\ \A i \in InFlightTasks : now < Deadline(i)
    /\ \A i \in OtherInFlight : now < OtherDeadline(i)
    /\ OverlapInstant <= MaxTime
    /\ now' = OverlapInstant
    /\ UNCHANGED <<next_allowed, first_call_vars, probe_vars, other>>

\* an engine without addons, outside demo mode
OverlapInit ==
    /\ EngineInit
    /\ demo_mode = FALSE
    /\ enabled_addon_names = <<>>

OverlapNext ==
    \/ \E ident \in Usernames, ps \in Filters :
          ScanStart(ident, ps, None, None, <<>>, None)
    \/ \E i \in Tasks : WaitReturn(i)
    \/ \E i \in Tasks : CheckReturn(i)
    \/ \E i \in Tasks : CheckTimeout(i)
    \/ GatherDone
    \/ Return
    \/ \E ident \in Usernames, ps \in OtherFilters : OtherStart(ident, ps)
    \/ \E i \in OtherTasks : OtherWaitReturn(i)
    \/ \E i \in OtherTasks : OtherCheckEnd(i)
    \/ OtherReturn
    \/ OverlapTick

OverlapSpec == OverlapInit /\ [][OverlapNext]_vars

(* ------------------------------- claims ------------------------------- *)

\* the probes a filter selects: the registered names it mentions, or the
\* whole registry when there is no filter
Selected ==
    IF providers = <<>> THEN Probes
    ELSE {p \in Probes : \E k \in DOMAIN providers : providers[k] = p}

AddonAppended == Len(results) > Len(chosen)

Abs(x) == IF x < 0 THEN -x ELSE x

SameHost(i, j) == HostOf(url(i)) = HostOf(url(j))

InFlight == {i \in Tasks : pc[i] = "check"}

\* C1: the returned list holds exactly one result per selected probe, and
\* without addon records its length is the number of selected probes, for
\* every filter, one that repeats a registered name included.
C1_OneResultPerSelectedProbe ==
    scan_pc = "returned" =>
        /\ \A p \in Selected :
              Cardinality({k \in DOMAIN returned : returned[k].provider = p}) = 1
        /\ ~AddonAppended => Len(returned) = Cardinality(Selected)

\* C2: whatever a probe's check does (returns, times out, raises),
\* scan_username does not end with an exception.
C2_NoRaise ==
    (\A j \in DOMAIN addon_pc : addon_pc[j] # "raised") => scan_pc # "raised"

\* C3: an addon whose run raises does not make scan_username raise.
C3_AddonFailureSwallowed ==
    (\E j \in DOMAIN addon_pc : addon_pc[j] = "raised") => scan_pc # "raised"

\* C4: the returned list is non-decreasing by provider.lower(), whatever the
\* completion order of the probe tasks, addon records included.
C4_SortedByLoweredProvider ==
    scan_pc = "returned" =>
        \A k \in 1..(Len(returned) - 1) :
            ~StrLess(Lower(returned[k + 1].provider), Lower(returned[k].provider))

\* C4 witness: a scan returned a list that holds an addon record and whose
\* order differs from the order gather and the addons left.
C4_Witness ==
    /\ scan_pc = "returned"
    /\ AddonAppended
    /\ returned # results
    /\ \E k \in DOMAIN returned : returned[k].provider = NameB

\* C5: at no instant are more than max_concurrency probes inside check.
C5_ConcurrencyCap == Cardinality(InFlight) <= max_concurrency

\* C5 witness: every slot is taken and a further task queues for one.
C5_Witness ==
    /\ Cardinality(InFlight) = max_concurrency
    /\ sem_waiters # <<>>

\* C6: two dispatches of one scan to the same host have limiter.wait return
\* times at least min_host_interval_sec apart.
C6_HostPoliteness ==
    \A i, j \in Tasks :
        (i # j /\ SameHost(i, j) /\ wait_ret[i] >= 0 /\ wait_ret[j] >= 0)
            => Abs(wait_ret[i] - wait_ret[j]) >= min_host_interval_sec

\* C6 witness: two probes with different URLs on one host have both passed
\* the gate, exactly one interval apart.
C6_Witness ==
    \E i, j \in Tasks :
        /\ url(i) # url(j)
        /\ SameHost(i, j)
        /\ wait_ret[i] >= 0
        /\ wait_ret[j] = wait_ret[i] + min_host_interval_sec

C8_CheckStartSpacing ==
    \A i, j \in Tasks :
        (i # j /\ SameHost(i, j) /\ check_start[i] >= 0 /\ check_start[j] >= 0)
            => Abs(check_start[i] - check_start[j]) >= min_host_interval_sec

\* C9: a check is never in flight past timeout + 5 seconds, and a check
\* that timed out leaves exactly the synthesised ERROR result, in the
\* task's slot of the gathered list as well.
C9_TimeoutResult ==
    \A i \in Tasks :
        /\ pc[i] = "check" => now - check_start[i] <= timeout(prov(i)) + 5
        /\ outcome[i] = "timeout" =>
              /\ pc[i] = "done"
              /\ res[i].provider = prov(i)
              /\ res[i].username = username
              /\ res[i].url = build_url(prov(i), username)
              /\ res[i].status = "ERROR"
              /\ res[i].http_status = None
              /\ res[i].elapsed_ms = (timeout(prov(i)) + 5) * 1000
              /\ res[i].evidence = <<>>
              /\ res[i].profile = <<>>
              /\ res[i].error = <<"Timed out after ", timeout(prov(i)) + 5, "s">>
              /\ scan_pc \in {"addons", "returned"} => results[i] = res[i]

\* C9 witness: in demo mode a check timed out and the scan returned its
\* result.
C9_Witness ==
    /\ scan_pc = "returned"
    /\ demo_mode
    /\ \E i \in Tasks :
          /\ outcome[i] = "timeout"
          /\ \E k \in DOMAIN returned : returned[k] = res[i]

\* C10: the client handed to check is the Tor client exactly when the URL
\* contains ".onion" and the Tor client exists; otherwise the proxy client
\* exactly when the probe opts in and that client exists; otherwise the
\* direct client.
C10_ClientSelection ==
    \A i \in Tasks :
        use_client[i] # None =>
            LET onion == Contains(url(i), ".onion")
                tor == Truthy(tor_proxy_url)
                proxy == Truthy(clearnet_proxy_url)
            IN  /\ (use_client[i] = "client_tor") <=> (onion /\ tor)
                /\ (use_client[i] = "client_clearnet_proxy")
                      <=> (~(onion /\ tor) /\ use_proxy(prov(i)) /\ proxy)
                /\ (use_client[i] = "client_direct")
                      <=> (~(onion /\ tor) /\ ~(use_proxy(prov(i)) /\ proxy))
                /\ ~onion => use_client[i] # "client_tor"

\* C10 witness: a probe that opts in to the proxy and whose URL contains
\* ".onion" was handed the Tor client while the proxy client existed too.
C10_Witness ==
    \E i \in Tasks :
        /\ use_client[i] = "client_tor"
        /\ use_proxy(prov(i))
        /\ Truthy(clearnet_proxy_url)

(* -------- claims about callbacks, addons, exits and cancellation ------- *)

Exited == scan_pc \in {"returned", "raised", "cancelled"}

Unfinished == {i \in Tasks : pc[i] \in {"wait", "sem", "check"}}

\* the callback invocations of the scan whose argument names probe p
CallsFor(p) ==
    {c \in {<<i, k>> : i \in Tasks, k \in 1..2} :
        /\ c[2] \in DOMAIN cb_calls[c[1]]
        /\ cb_calls[c[1]][c[2]].provider = p}

\* C12: once scan_username has exited, by a normal return, by an exception
\* of a probe, a callback or an addon, or by the caller's cancellation, no
\* HTTP client it opened is still open.
C12_ClientsReleased == Exited => open_clients = {}

\* C12 witness: a scan that had opened the Tor client next to the direct one
\* was left by an exception the progress callback raised.
C12_Witness ==
    /\ scan_pc = "raised"
    /\ Truthy(tor_proxy_url)
    /\ \E i \in Tasks : pc[i] = "failed" /\ outcome[i] = "returned"

\* C13: when a scan with a progress callback has returned, the callback has
\* been invoked exactly once for every selected probe, with that probe's
\* final result, timeout results included.
C13_CallbackOncePerProbe ==
    (scan_pc = "returned" /\ progress_callback # None) =>
        /\ \A p \in Selected : Cardinality(CallsFor(p)) = 1
        /\ \A i \in Tasks : cb_calls[i] = <<res[i]>>

\* C14: a filter name that is not registered yields no probe task, no
\* record in the returned list and no failure, while the registered names of
\* the same filter are scanned.
C14_UnregisteredDropped ==
    scan_pc # "idle" =>
        /\ \A i \in Tasks : chosen[i] \in Probes
        /\ {chosen[i] : i \in Tasks} = Selected
        /\ scan_pc = "returned" =>
              /\ \A k \in DOMAIN returned :
                    returned[k].provider \in Selected \cup {NameZz}
              /\ \A p \in Selected :
                    \E k \in DOMAIN returned : returned[k].provider = p

\* C14 witness: a scan whose filter named an unregistered probe before two
\* registered ones returned the records of those two.
C14_Witness ==
    /\ scan_pc = "returned"
    /\ providers = <<NameGhost, NameB, NameA>>
    /\ \E k \in DOMAIN returned : returned[k].provider = NameB
    /\ \E k \in DOMAIN returned : returned[k].provider = NameA

\* C15: an addon task exists only after every probe task has produced its
\* result and its callback has returned; each addon is given the username,
\* the one list that holds every probe result, client_direct and the
\* engine's limiter, and client_direct is open while the addons stage lasts.
C15_AddonsAfterProbes ==
    /\ scan_pc = "addons" => "client_direct" \in open_clients
    /\ \A j \in DOMAIN addon_pc :
          /\ \A i \in Tasks :
                /\ pc[i] = "done"
                /\ outcome[i] \in {"returned", "timeout"}
                /\ progress_callback # None => cb_calls[i] = <<res[i]>>
                /\ results[i] = res[i]
          /\ addon_args[j].username = username
          /\ addon_args[j].results = "results"
          /\ addon_args[j].client = "client_direct"
          /\ addon_args[j].limiter = "self.limiter"

\* C15 witness: two addons are pending after a scan with a callback in which
\* a probe timed out, and the Tor client exists.
C15_Witness ==
    /\ scan_pc = "addons"
    /\ Len(addon_pc) >= 2
    /\ \A j \in DOMAIN addon_pc : addon_pc[j] = "pending"
    /\ progress_callback # None
    /\ Truthy(tor_proxy_url)
    /\ \E i \in Tasks : outcome[i] = "timeout"

\* the number of enabled names that are registered
RECURSIVE CountRegistered(_)
CountRegistered(names) ==
    IF names = <<>> THEN 0
    ELSE (IF Head(names) \in addon_registry THEN 1 ELSE 0)
            + CountRegistered(Tail(names))

\* C16: the addons of a scan are the registered addons named in the enabled
\* list, followed by the caller's dynamic addons; a registered addon that is
\* not enabled is not among them, an enabled name that is not registered
\* adds nothing and stops nothing, and every dynamic addon is among them.
C16_AddonsRun ==
    scan_pc \in {"addons", "returned"} =>
        LET nReg == CountRegistered(enabled_addon_names)
        IN  /\ Len(addons_to_run) = nReg + Len(dynamic_addons)
            /\ SubSeq(addons_to_run, nReg + 1, Len(addons_to_run)) = dynamic_addons
            /\ \A n \in addon_registry :
                  (\E j \in 1..nReg : addons_to_run[j] = Registered(n))
                     <=> (\E k \in DOMAIN enabled_addon_names :
                             enabled_addon_names[k] = n)
            /\ DOMAIN addon_pc = DOMAIN addons_to_run

\* C16 witness: a scan returned after running one enabled registered addon
\* and one dynamic addon, with an unregistered name in the enabled list and
\* a registered addon left out of it.
C16_Witness ==
    /\ scan_pc = "returned"
    /\ enabled_addon_names = <<"r0", "r2">>
    /\ dynamic_addons # <<>>
    /\ addons_to_run = <<Registered("r2")>> \o dynamic_addons
    /\ \A j \in DOMAIN addon_pc : addon_pc[j] = "done"

\* C17: after the caller cancelled scan_username, no probe task of the scan
\* is still running or waiting, and none waits for the semaphore.
C17_CancelStopsProbes ==
    scan_pc = "cancelled" => (Unfinished = {} /\ sem_waiters = <<>>)

\* C17 witness: a cancellation stopped one probe task inside check and
\* another one that had not yet passed the host limiter.
C17_Witness ==
    /\ scan_pc = "cancelled"
    /\ \E i, k \in Tasks :
          /\ pc[i] = "cancelled" /\ check_start[i] >= 0
          /\ pc[k] = "cancelled" /\ wait_ret[k] = -1

(* --------------------- claims about provider checks -------------------- *)

\* the URL the engine builds for the followed check contains ".onion"
OnionUrl == Contains(build_url(probe, username), ".onion")

\* check has returned after every request it sent was answered
Answered == probe_pc = "returned" /\ requests # <<>> /\ Pending = {}

FinalCode == requests[Len(requests)].code

\* C11 (as stated): when the built URL contains ".onion" and
\* SOCIAL_HUNT_PROXY is set, every request of the check goes through the Tor
\* client, never through a direct or a privately constructed one.
C11_AllRequestsThroughTor ==
    (probe_pc # "idle" /\ OnionUrl /\ tor_proxy_url # None) =>
        \A k \in DOMAIN requests : requests[k].via = "client_tor"

\* C11 (amended): when the built URL contains ".onion" and SOCIAL_HUNT_PROXY
\* is set to a non-empty value, check is handed the Tor client, and every
\* request goes through it unless the provider opens a private client, as
\* leakcheck, snusbase and breachvip do.
C11_OnionHandedTor ==
    (probe_pc # "idle" /\ OnionUrl /\ Truthy(tor_proxy_url)) =>
        /\ handed = "client_tor"
        /\ \A k \in DOMAIN requests :
              IF probe \in PrivateClientProviders
              THEN requests[k].via = "private"
              ELSE requests[k].via = "client_tor"

\* C11 witness: hibp, asked about an address at a .onion domain with the Tor
\* proxy set, sent both of its requests through the Tor client and returned.
C11_Witness ==
    /\ probe = NameHibp
    /\ probe_pc = "returned"
    /\ OnionUrl
    /\ Truthy(tor_proxy_url)
    /\ Len(requests) = 2
    /\ \A k \in DOMAIN requests : requests[k].via = "client_tor"

\* C18: for every provider and identifier, check returns a result and does
\* not raise, and a result with status ERROR carries a non-empty error.
C18_CheckNeverRaises ==
    /\ probe_pc # "raised"
    /\ (probe_pc = "returned" /\ probe_res.status = "ERROR") =>
          probe_res.error \notin {None, ""}

\* C19: a check whose final response has status code 403, 429 or 503
\* returns a result with status BLOCKED.
C19_RefusalIsBlocked ==
    (Answered /\ FinalCode \in {403, 429, 503}) => probe_res.status = "BLOCKED"

\* C20: a check whose final response has a 4xx or 5xx status code other
\* than 403, 429 and 503 returns a result with status ERROR.
C20_OtherFailureIsError ==
    (Answered /\ FinalCode >= 400 /\ FinalCode \notin {403, 429, 503}) =>
        probe_res.status = "ERROR"

\* C21: in a result a check returns, FOUND carries no error; ERROR, BLOCKED
\* and UNKNOWN carry one; NOT_FOUND carries one only when the identifier
\* was rejected for its format, before any request.
C21_ErrorIffFailureStatus ==
    probe_pc = "returned" =>
        /\ probe_res.status = "FOUND" => probe_res.error = None
        /\ probe_res.status \in {"ERROR", "BLOCKED", "UNKNOWN"} =>
              probe_res.error # None
        /\ (probe_res.status = "NOT_FOUND" /\ probe_res.error # None) =>
              requests = <<>>

\* the providers that need an API key
KeyProviders == {NameHibp, NameLeakcheck, NameSnusbase}

\* the error strings that start with "Skipped:"
SkippedErrors ==
    { "Skipped: HIBP API key not set in Settings (hibp_api_key).",
      "Skipped: LeakCheck API key not set in Settings (leakcheck_api_key).",
      "Skipped: Snusbase API key not set in Settings (snusbase_api_key)." }

\* C22: without a key, the check of hibp, leakcheck and snusbase returns,
\* for every identifier, UNKNOWN with an error that starts with "Skipped:"
\* and no http_status, sends no request and does not raise.
C22_NoKeySkipped ==
    (probe_pc # "idle" /\ probe \in KeyProviders /\ ~api_key) =>
        /\ probe_pc = "returned"
        /\ probe_res.status = "UNKNOWN"
        /\ probe_res.error \in SkippedErrors
        /\ probe_res.http_status = None
        /\ requests = <<>>

\* C22 witness: leakcheck without a key returned for the identifier that
\* makes its type detection raise when a key is configured.
C22_Witness ==
    /\ probe = NameLeakcheck
    /\ ~api_key
    /\ probe_pc = "returned"
    /\ username = <<"1", ".", "1", ".", "1", ".", "sup2">>
    /\ probe_res.status = "UNKNOWN"

\* C23: the username of a result a check returns is the identifier the
\* check was called with.
C23_UsernameEchoed ==
    probe_pc = "returned" => probe_res.username = username

\* C24: when a check has returned or raised, the header mapping it was
\* handed holds the keys and values the engine put there.
C24_HeadersUntouched ==
    probe_pc \in {"returned", "raised"} => headers = run_one_headers

(* ------------- claims about redaction, emission and timing ------------- *)

\* C25: the result a probe task hands on equals the one its check (or the
\* outer timeout) produced in status, provider, username, url, http_status,
\* elapsed_ms, error and timestamp_iso, and its profile and evidence have
\* the same top-level keys, in demo mode as well as outside it.
C25_RedactionScope ==
    \A i \in Tasks :
        pc[i] = "done" =>
            /\ res[i].status = raw_res[i].status
            /\ res[i].provider = raw_res[i].provider
            /\ res[i].username = raw_res[i].username
            /\ res[i].url = raw_res[i].url
            /\ res[i].http_status = raw_res[i].http_status
            /\ res[i].elapsed_ms = raw_res[i].elapsed_ms
            /\ res[i].error = raw_res[i].error
            /\ res[i].timestamp_iso = raw_res[i].timestamp_iso
            /\ DOMAIN res[i].profile = DOMAIN raw_res[i].profile
            /\ DOMAIN res[i].evidence = DOMAIN raw_res[i].evidence

\* C25 witness: in demo mode one task's profile and another task's evidence
\* were censored, and a third task's timeout result had nothing to censor.
C25_Witness ==
    /\ demo_mode
    /\ \E i \in Tasks : pc[i] = "done" /\ res[i].profile # raw_res[i].profile
    /\ \E i \in Tasks : pc[i] = "done" /\ res[i].evidence # raw_res[i].evidence
    /\ \E i \in Tasks : pc[i] = "done" /\ outcome[i] = "timeout"

C27_ElapsedBound ==
    \A i \in Tasks :
        pc[i] = "done" => res[i].elapsed_ms <= (timeout(prov(i)) + 5) * 1000

\* C27 witness: one check returned at the very end of the outer timeout,
\* another was cut off by it, and both results reach the bound.
C27_Witness ==
    /\ \E i \in Tasks :
          /\ pc[i] = "done"
          /\ outcome[i] = "returned"
          /\ res[i].elapsed_ms = (timeout(prov(i)) + 5) * 1000
    /\ \E i \in Tasks :
          /\ pc[i] = "done"
          /\ outcome[i] = "timeout"
          /\ res[i].elapsed_ms = (timeout(prov(i)) + 5) * 1000

(* ------------------- claims about the host limiter -------------------- *)

\* C28: limiter.wait(url) returns only when the clock has reached
\* next_allowed_at of the URL's host and, in the same step, sets it to
\* max(now, previous) + min_host_interval_sec; a wait for a host without an
\* entry can return at once; no step lowers an entry or removes a host.
C28_WaitContract ==
    [][ /\ \A h \in DOMAIN next_allowed :
              /\ h \in DOMAIN next_allowed'
              /\ next_allowed'[h] >= next_allowed[h]
        /\ \A i \in Tasks :
              LET h == HostOf(url(i)) IN
              /\ (pc[i] = "wait" /\ h \notin DOMAIN next_allowed)
                    => ENABLED WaitReturn(i)
              /\ (pc[i] = "wait" /\ pc'[i] # "wait") =>
                    /\ h \in DOMAIN next_allowed => now >= next_allowed[h]
                    /\ h \in DOMAIN next_allowed'
                    /\ next_allowed'[h] =
                          (IF h \in DOMAIN next_allowed /\ next_allowed[h] > now
                           THEN next_allowed[h] ELSE now) + min_host_interval_sec
      ]_vars

\* C28 witness: on one host a first wait returned at once, a second one
\* was held back and returned later than the first entry required, and the
\* host's entry is one interval after that return.
C28_Witness ==
    \E i, j \in Tasks :
        /\ SameHost(i, j)
        /\ wait_ret[j] = 0
        /\ wait_ret[i] > wait_ret[j] + min_host_interval_sec
        /\ HostOf(url(i)) \in DOMAIN next_allowed
        /\ next_allowed[HostOf(url(i))] = wait_ret[i] + min_host_interval_sec

(* ------------- claims about retries and the working set --------------- *)

\* the tasks of a probe whose check was invoked
Invoked(p) == {i \in Tasks : prov(i) = p /\ check_start[i] >= 0}

\* C29: in a scan that returned, the check of each selected probe was
\* invoked exactly once, whether it returned or was cut off by the outer
\* timeout.
C29_CheckInvokedOnce ==
    scan_pc = "returned" => \A p \in Selected : Cardinality(Invoked(p)) = 1

InSelected(p) == p \in Selected

\* C30: with a filter, the working list is the registered names of the
\* filter in registry iteration order, and task i runs the i-th of them.
C30_RegistryOrder ==
    (scan_pc # "idle" /\ providers # <<>>) =>
        chosen = SelectSeq(RegistryOrder, InSelected)

(* ----------------------- claims about single probes ------------------- *)

\* the status the precedence of the claim gives a pair of response codes
HibpPrecedence(b, p) ==
    IF b = 200 \/ p = 200 THEN "FOUND"
    ELSE IF b = 429 \/ p = 429 THEN "BLOCKED"
    ELSE IF b = 404 /\ p = 404 THEN "NOT_FOUND"
    ELSE IF b >= 500 \/ p >= 500 THEN "ERROR"
    ELSE "UNKNOWN"

\* the identifiers that are e-mail addresses
HibpEmails == {<<"x", "@", "x", ".onion">>}

\* the check of hibp, called with a key, has returned
HibpReturned == probe = NameHibp /\ api_key /\ probe_pc = "returned"

\* both lookups of hibp were answered
HibpAnswered ==
    Len(requests) = 2 /\ requests[1].code # 0 /\ requests[2].code # 0

\* what hibp does without a request: a wildcard is an ERROR, any other
\* identifier that is no e-mail address is NOT_FOUND
HibpRejections ==
    /\ Has(username, "*") => requests = <<>> /\ probe_res.status = "ERROR"
    /\ (~Has(username, "*") /\ username \notin HibpEmails) =>
          requests = <<>> /\ probe_res.status = "NOT_FOUND"
    /\ username \in HibpEmails => Len(requests) = 2

\* C33 as stated: with a key, every answered pair of (breach, paste) codes
\* gives the status of the precedence, and the wildcard and non-e-mail
\* rejections happen without a request.
C33_HibpPrecedence ==
    HibpReturned =>
        /\ HibpRejections
        /\ HibpAnswered =>
              probe_res.status = HibpPrecedence(requests[1].code, requests[2].code)

\* a 200 response of hibp whose body is not the JSON the probe reads
HibpUnparsed == \E k \in DOMAIN requests : requests[k].code = 200 /\ requests[k].body = "bad"

\* C33 amended: the precedence holds for every answered pair whose 200
\* responses parse; a 200 response that does not parse gives ERROR with no
\* http_status; the rejections are as stated.
C33_HibpPrecedenceParsed ==
    HibpReturned =>
        /\ HibpRejections
        /\ (HibpAnswered /\ ~HibpUnparsed) =>
              probe_res.status = HibpPrecedence(requests[1].code, requests[2].code)
        /\ (HibpAnswered /\ HibpUnparsed) =>
              probe_res.status = "ERROR" /\ probe_res.http_status = None

\* C33 witness: hibp answered 429 for the breaches and 500 for the pastes
\* and the result is BLOCKED.
C33_Witness ==
    /\ HibpReturned
    /\ HibpAnswered
    /\ requests[1].code = 429
    /\ requests[2].code = 500
    /\ probe_res.status = "BLOCKED"

\* the check of goyimtv has returned and its last request was answered
GoyimtvAnswered ==
    /\ probe = NameGoyimtv
    /\ probe_pc = "returned"
    /\ requests # <<>>
    /\ requests[Len(requests)].code # 0

\* C32: goyimtv sends at most two GETs in one check; the second only when
\* the first was answered 403, 503 or 429, and no sooner than two seconds
\* after the first; the result carries the code of the last response and
\* the verdict its body gives.
C32_GoyimtvRetryOnce ==
    probe = NameGoyimtv =>
        /\ Len(requests) <= 2
        /\ Len(requests) = 2 =>
              /\ requests[1].code \in {403, 503, 429}
              /\ requests[2].at >= requests[1].at + 2
        /\ (GoyimtvAnswered /\ requests[Len(requests)].body # "bad") =>
              /\ probe_res.http_status = requests[Len(requests)].code
              /\ probe_res.status =
                    (IF requests[Len(requests)].body = "hit" THEN "FOUND" ELSE "NOT_FOUND")

\* C32 witness: the first answer was a 403 carrying a match, the second a
\* 200 without one, and the result is NOT_FOUND with http_status 200.
C32_Witness ==
    /\ GoyimtvAnswered
    /\ Len(requests) = 2
    /\ requests[1].code = 403
    /\ requests[1].body = "hit"
    /\ requests[2].code = 200
    /\ requests[2].body = "miss"
    /\ probe_res.status = "NOT_FOUND"
    /\ probe_res.http_status = 200

(* --------------- claims about the gate and the worker slots ----------- *)

\* C34: a task takes its worker slot only after limiter.wait has returned:
\* the slots in use are exactly those of the tasks inside check, a task
\* still in limiter.wait holds none, and a task queues for a slot only
\* while tasks inside check hold them all.
C34_GateBeforeSlot ==
    scan_pc # "idle" =>
        /\ max_concurrency - sem = Cardinality(InFlight)
        /\ \A i \in Tasks :
              /\ pc[i] = "wait" => (wait_ret[i] = -1 /\ check_start[i] = -1)
              /\ check_start[i] >= 0 =>
                    (wait_ret[i] >= 0 /\ wait_ret[i] <= check_start[i])
              /\ pc[i] = "sem" => Cardinality(InFlight) = max_concurrency

\* C34 witness: a task is held at the gate of a busy host while a task for
\* another host, which passed its gate no earlier, is inside check.
C34_Witness ==
    \E i, j, k \in Tasks :
        /\ pc[i] = "wait"
        /\ ~LimiterOpen(url(i), now)
        /\ SameHost(i, j)
        /\ pc[j] = "check"
        /\ ~SameHost(i, k)
        /\ pc[k] = "check"
        /\ wait_ret[k] >= wait_ret[j]

\* C35: a task holds a worker slot all the while it is inside check, the
\* slots in use being exactly those of such tasks, and once scan_username
\* has exited, by a return, an exception or a cancellation, no slot is held.
C35_SlotsReleasedAtExit ==
    scan_pc # "idle" =>
        /\ max_concurrency - sem = Cardinality(InFlight)
        /\ Exited => sem = max_concurrency

\* C36: once scan_username has exited and its clients are closed, no probe
\* task of the scan is inside check or still on its way to it.
C36_NoCheckAfterClose ==
    (Exited /\ open_clients = {}) => Unfinished = {}

(* ------------------- claims about the empty selection ----------------- *)

\* the filter of the scan is not empty and names no registered probe
OnlyUnregistered ==
    /\ providers # <<>>
    /\ \A k \in DOMAIN providers : providers[k] \notin Probes

\* a scan without a filter runs the whole registry; one whose filter names
\* no registered probe has no probe task, hence no check and no callback
\* call, and when it returns every addon of the scan has run
EmptySelection ==
    /\ providers = <<>> => chosen = RegistryOrder
    /\ OnlyUnregistered =>
          /\ chosen = <<>>
          /\ cb_calls = <<>>
          /\ check_start = <<>>
          /\ scan_pc = "returned" =>
                /\ Len(addon_pc) = Len(AddonsToRun(enabled_addon_names, dynamic_addons))
                /\ \A j \in DOMAIN addon_pc : addon_pc[j] = "done"

\* C37 as stated: the scan whose filter names no registered probe returns
\* an empty list.
C37_EmptySelectionReturnsEmpty ==
    scan_pc # "idle" =>
        /\ EmptySelection
        /\ (OnlyUnregistered /\ scan_pc = "returned") => returned = <<>>

\* C37 amended: that scan returns no probe result; its list holds the
\* records the addons appended and nothing else.
C37_EmptySelectionNoProbeResult ==
    scan_pc # "idle" =>
        /\ EmptySelection
        /\ (OnlyUnregistered /\ scan_pc = "returned") =>
              /\ \A k \in DOMAIN returned : returned[k].provider = NameZz
              /\ ~AddonAppended => returned = <<>>

\* C37 witness: a scan with a callback whose filter named only an
\* unregistered probe ran an addon and returned the record it appended.
C37_Witness ==
    /\ scan_pc = "returned"
    /\ providers = <<NameGhost>>
    /\ progress_callback # None
    /\ addon_pc # <<>>
    /\ returned # <<>>

(* -------------------- claims about the record lists ------------------- *)

\* the probes that list the records a breach service returned
BreachProbes == {NameBreachvip, NameLeakcheck, NameSnusbase}

\* the check of a breach probe has returned FOUND
BreachFound ==
    /\ probe \in BreachProbes
    /\ probe_pc = "returned"
    /\ probe_res.status = "FOUND"

\* C38: a FOUND result of breachvip, leakcheck or snusbase lists at most 100
\* records in profile.raw_results, in demo mode and outside it.
C38_RawResultsCapped ==
    BreachFound => Len(probe_res.profile.raw_results.val) <= 100

(* ------------------ claims about calls on one engine ------------------ *)

\* C31: across two calls of scan_username on one engine, the probes inside
\* check never number more than max_concurrency.
C31_EngineWideCap ==
    Cardinality(InFlight) + Cardinality(OtherInFlight) <= max_concurrency

\* C40: two dispatches to one host from different calls on the same
\* engine have limiter.wait return times at least min_host_interval_sec
\* apart, whether the calls overlap or follow one another.
C40_GateAcrossScans ==
    \A i \in Tasks, j \in OtherTasks :
        (/\ HostOf(url(i)) = HostOf(other_url(j))
         /\ wait_ret[i] >= 0
         /\ other.wait_ret[j] >= 0)
            => Abs(wait_ret[i] - other.wait_ret[j]) >= min_host_interval_sec

\* C40 witness: the first call has returned, and the one task of the second
\* call passed the gate of the hidden-service host exactly one interval
\* after the first call's task for that host.
C40_Witness ==
    /\ scan_pc = "returned"
    /\ other.chosen = <<NameC>>
    /\ \E i \in Tasks :
          /\ prov(i) = NameC
          /\ wait_ret[i] >= 0
          /\ other.wait_ret[1] = wait_ret[i] + min_host_interval_sec

(* ------------------------ claims about liveness ----------------------- *)

\* C39: a scan_username call that has started its probes eventually ends,
\* for every max_concurrency the constructor accepts.
C39_ScanEnds == (scan_pc = "probes") ~> Exited

====
